---- MODULE Spec2Model ----
(***************************************************************************)
(* A model of the `lets` workspace tool: the branch-name conflict resolver *)
(* (src/lets/cli.py), branch-name generation, and the launcher registry    *)
(* (src/lets/launchers/__init__.py).                                       *)
(*                                                                         *)
(* Strings are sequences of one-character strings, so that concatenation,  *)
(* formatting, stripping and filtering are computed character by           *)
(* character.  External tools are opaque subprocesses observed through     *)
(* their exit code and standard output only.                               *)
(***************************************************************************)
EXTENDS Integers, Sequences, FiniteSets, TLC

VARIABLES refs, gitOk, dirs, osName, bins, last, tmux, config, run

vars == <<refs, gitOk, dirs, osName, bins, last, tmux, config, run>>

(***************************************************************************)
(* Bounds of the model.                                                    *)
(***************************************************************************)
\* Incremental candidates <name>-1 .. <name>-MaxPrefix may all be taken.
MaxPrefix == 3
\* Among the taken incremental candidates, any of the first MaxHole may be free.
MaxHole == 2
\* The AI tool's answer repeats a pattern of at most MaxPat characters.
MaxPat == 2

(***************************************************************************)
(* Text helpers.                                                           *)
(***************************************************************************)
DigitChars == <<"0", "1", "2", "3", "4", "5", "6", "7", "8", "9">>

\* str(n) for a natural number: decimal digits, no padding.
RECURSIVE DecStr(_)
DecStr(n) ==
    IF n < 10 THEN <<DigitChars[n + 1]>>
    ELSE DecStr(n \div 10) \o <<DigitChars[(n % 10) + 1]>>

\* A two-digit zero-padded field of strftime (%H, %M, %S, %m, %d).
Pad2(n) == <<DigitChars[(n \div 10) + 1], DigitChars[(n % 10) + 1]>>

\* The four-digit year field of strftime (%Y) for years 1000..9999.
Pad4(n) == Pad2(n \div 100) \o Pad2(n % 100)

\* datetime.now(UTC).strftime("%H%M%S")
StrftimeHMS(t) == Pad2(t.h) \o Pad2(t.mi) \o Pad2(t.s)

\* datetime.now(UTC).strftime("%Y%m%d-%H%M%S")
StrftimeYmdHMS(t) ==
    Pad4(t.y) \o Pad2(t.mo) \o Pad2(t.d) \o <<"-">> \o StrftimeHMS(t)

\* f"origin/{branch_name}"
Origin(name) == <<"o", "r", "i", "g", "i", "n", "/">> \o name

(***************************************************************************)
(* run_command and the git existence probe.                                *)
(***************************************************************************)
\* Exit code of `git rev-parse --verify <ref>`: 0 when the ref resolves,
\* 128 otherwise (also when the directory is not a repository).
GitRevParseVerify(ref, R, ok) == IF ok /\ ref \in R THEN 0 ELSE 128

\* run_command(cmd, capture_output=.., check=..): CalledProcessError is
\* raised only when check is set and the exit code is non-zero.
RunCommand(exit, capture_output, check) ==
    [raised |-> check /\ exit # 0,
     isNone |-> (check /\ exit # 0) \/ ~capture_output,
     exit   |-> exit]

\* A broken probe that lets the remote check's CalledProcessError escape.
BranchExists_RemoteEscapes(name, R, ok) ==
    LET local == RunCommand(GitRevParseVerify(name, R, ok), TRUE, TRUE) IN
    IF ~local.raised
    THEN [value |-> TRUE, raised |-> FALSE, cmds |-> <<name>>]
    ELSE LET remote ==
                 RunCommand(GitRevParseVerify(Origin(name), R, ok), TRUE, TRUE)
         IN [value  |-> ~remote.raised,
             raised |-> remote.raised,
             cmds   |-> <<name, Origin(name)>>]

\* A broken probe that checks the local ref only.
BranchExists_LocalOnly(name, R, ok) ==
    LET local == RunCommand(GitRevParseVerify(name, R, ok), TRUE, TRUE) IN
    [value |-> ~local.raised, raised |-> FALSE, cmds |-> <<name>>]

\* branch_exists(branch_name): cmds lists the refs handed to
\* `git rev-parse --verify`, in the order the checks were run.
BranchExists(name, R, ok) ==
    LET local == RunCommand(GitRevParseVerify(name, R, ok), TRUE, TRUE) IN
    IF ~local.raised
    THEN [value |-> TRUE, raised |-> FALSE, cmds |-> <<name>>]
    ELSE LET remote ==
                 RunCommand(GitRevParseVerify(Origin(name), R, ok), TRUE, TRUE)
         IN [value  |-> ~remote.raised,
             raised |-> FALSE,
             cmds   |-> <<name, Origin(name)>>]

(***************************************************************************)
(* handle_branch_conflict.                                                 *)
(***************************************************************************)
\* A timestamp candidate that drops the zero padding of strftime.
TimestampCandidate_Unpadded(base, t) ==
    base \o <<"-">> \o DecStr(t.h) \o DecStr(t.mi) \o DecStr(t.s)

\* f"{base_name}-{timestamp}" with timestamp = strftime("%H%M%S")
TimestampCandidate(base, t) == base \o <<"-">> \o StrftimeHMS(t)

\* f"{base_name}-{i}"
IncrCandidate(base, i) == base \o <<"-">> \o DecStr(i)

\* A final fallback that forgets the suffix.
FinalCandidate_NoSuffix(base, t) == base

\* f"{base_name}-{datetime.now(UTC).strftime('%Y%m%d-%H%M%S')}"
FinalCandidate(base, t) == base \o <<"-">> \o StrftimeYmdHMS(t)

\* A loop that runs one candidate too far.
IncrStop_OneMore == 100 + 1

\* range(1, 100): the loop stops before IncrStop.
IncrStop == 100

\* A prompt whose answer is ignored.
ClickConfirm_AlwaysYes(answer) == TRUE

\* click.confirm("Use existing branch?", default=False)
ClickConfirm(answer) == answer

UseExistingPrompt == "Use existing branch?"

\* The value handle_branch_conflict hands back, with the prompts it issued
\* and the names it handed to branch_exists (and what each probe found).
Resolved(name, isExisting, prompts, probes, raised) ==
    [name |-> name, is_existing |-> isExisting, prompts |-> prompts,
     probes |-> probes, raised |-> raised]

\* for i in range(1, 100): the loop returns at the first <base>-<i> whose
\* probe does not report "exists"; when it runs to the end the final
\* fallback is returned.  probes are the probes made before the loop.
IncrLoop(base, t2, R, ok, probes) ==
    LET probe(i) == BranchExists(IncrCandidate(base, i), R, ok)
        stops    == {i \in 1 .. (IncrStop - 1) :
                        probe(i).raised \/ ~probe(i).value}
        n        == IF stops = {} THEN IncrStop - 1
                    ELSE CHOOSE i \in stops : \A k \in stops : i <= k
        seen     == probes \o [i \in 1 .. n |->
                                  [name  |-> IncrCandidate(base, i),
                                   found |-> probe(i).value]]
    IN IF stops = {}
       THEN Resolved(FinalCandidate(base, t2), FALSE,
                     <<UseExistingPrompt>>, seen, FALSE)
       ELSE Resolved(IncrCandidate(base, n), FALSE,
                     <<UseExistingPrompt>>, seen, probe(n).raised)

\* A resolver that prompts before it looks.
HandleBranchConflict_PromptFirst(base, answer, t1, t2, R, ok) ==
    LET e0 == BranchExists(base, R, ok)
        p0 == <<[name |-> base, found |-> e0.value]>>
    IN IF ClickConfirm(answer)
       THEN Resolved(base, e0.value, <<UseExistingPrompt>>, p0, FALSE)
       ELSE IF ~e0.value
       THEN Resolved(base, FALSE, <<UseExistingPrompt>>, p0, FALSE)
       ELSE IncrLoop(base, t2, R, ok, p0)

\* handle_branch_conflict(base_name); answer is what the user would reply to
\* the prompt, t1 and t2 are the two readings of the clock.
HandleBranchConflict(base, answer, t1, t2, R, ok) ==
    LET e0 == BranchExists(base, R, ok)
        p0 == <<[name |-> base, found |-> e0.value]>>
    IN IF e0.raised
       THEN Resolved(base, FALSE, <<>>, p0, TRUE)
       ELSE IF ~e0.value
       THEN Resolved(base, FALSE, <<>>, p0, FALSE)
       ELSE IF ClickConfirm(answer)
       THEN Resolved(base, TRUE, <<UseExistingPrompt>>, p0, FALSE)
       ELSE LET candidate == TimestampCandidate(base, t1)
                e1        == BranchExists(candidate, R, ok)
                p1        == Append(p0, [name |-> candidate, found |-> e1.value])
            IN IF e1.raised
               THEN Resolved(candidate, FALSE, <<UseExistingPrompt>>, p1, TRUE)
               ELSE IF ~e1.value
               THEN Resolved(candidate, FALSE, <<UseExistingPrompt>>, p1, FALSE)
               ELSE IncrLoop(base, t2, R, ok, p1)

(***************************************************************************)
(* The repository and the clock the resolver runs against.                 *)
(***************************************************************************)
Feature == <<"f", "e", "a", "t", "u", "r", "e">>
FixBug == <<"f", "i", "x", "-", "b", "u", "g">>
ShortName == <<"a", "b">>

\* Desired branch names handed to the resolver.
BaseNames == {Feature, FixBug, ShortName}

Clock(h, mi, s) == [y |-> 2024, mo |-> 1, d |-> 1, h |-> h, mi |-> mi, s |-> s]

\* Readings of datetime.now(UTC).
Times == {Clock(15, 30, 0), Clock(0, 0, 1)}

\* Where a branch lives: nowhere, as a local ref, as origin/<name>, or both.
Place(where, name) ==
    CASE where = "local"  -> {name}
      [] where = "remote" -> {Origin(name)}
      [] where = "both"   -> {name, Origin(name)}
      [] OTHER            -> {}

\* How many of the incremental candidates are taken: a few, or nearly all.
Prefixes == (0 .. MaxPrefix) \cup {IncrStop - 2, IncrStop - 1}

\* Refs of a repository in which base, its timestamp candidate, the
\* incremental candidates 1..k except holes, and the final candidate exist.
RepoRefs(base, t, wb, wt, k, holes, wf) ==
    Place(wb, base)
    \cup Place(wt, TimestampCandidate(base, t))
    \cup UNION {Place(IF i % 2 = 1 THEN "local" ELSE "remote",
                      IncrCandidate(base, i)) : i \in (1 .. k) \ holes}
    \cup Place(wf, FinalCandidate(base, t))

RepoFamily ==
    {RepoRefs(b, t, wb, wt, k, holes, wf) :
        b \in {Feature, ShortName}, t \in Times,
        wb \in {"none", "local", "remote", "both"},
        wt \in {"none", "local", "remote"},
        k \in Prefixes, holes \in SUBSET (1 .. MaxHole),
        wf \in {"none", "local"}}

\* Names the existence probe is asked about.
ProbeNames ==
    BaseNames
    \cup {TimestampCandidate(b, t) : b \in BaseNames, t \in Times}
    \cup {IncrCandidate(b, i) : b \in BaseNames, i \in 1 .. 2}

\* The defaults of LetsSettings and TmuxLauncherSettings.
Dev == <<"d", "e", "v">>

Claude == <<"c", "l", "a", "u", "d", "e">>

DefaultSettings ==
    [launcher       |-> "tmux",
     ai_tool        |-> Claude,
     editor_command |-> <<>>,
     launchers      |-> [tmux |-> [session |-> Dev, auto_attach |-> TRUE]]]

\* A tmux server without sessions.
NoSessions == {}

\* No invocation of main is under way.
NoRun == [pc |-> "none"]

NoCall == [op |-> "none"]

(***************************************************************************)
(* Specification of the resolver: a repository is given, and one run makes *)
(* its call of branch_exists or handle_branch_conflict against it (main    *)
(* resolves the branch name once per invocation).                          *)
(***************************************************************************)
InitResolver ==
    /\ refs \in RepoFamily
    /\ gitOk \in BOOLEAN
    /\ dirs = {}
    /\ osName = "posix"
    /\ bins = {}
    /\ last = NoCall
    /\ tmux = NoSessions
    /\ config = DefaultSettings
    /\ run = NoRun

\* A call of branch_exists(name).
CallBranchExists ==
    \E name \in ProbeNames :
        /\ last = NoCall
        /\ last' = [op |-> "branch_exists", arg |-> name,
                    ret |-> BranchExists(name, refs, gitOk)]
        /\ UNCHANGED <<refs, gitOk, dirs, osName, bins, tmux, config, run>>

\* A call of handle_branch_conflict(base_name).
CallHandleBranchConflict ==
    \E base \in BaseNames, answer \in BOOLEAN, t1 \in Times, t2 \in Times :
        /\ last = NoCall
        /\ last' = [op |-> "handle_branch_conflict", arg |-> base,
                    answer |-> answer, t1 |-> t1, t2 |-> t2,
                    ret |-> HandleBranchConflict(base, answer, t1, t2,
                                                 refs, gitOk)]
        /\ UNCHANGED <<refs, gitOk, dirs, osName, bins, tmux, config, run>>

NextResolver == CallBranchExists \/ CallHandleBranchConflict

SpecResolver == InitResolver /\ [][NextResolver]_vars

(***************************************************************************)
(* The launcher registry (launchers/__init__.py) and the availability      *)
(* probes of the two launchers.                                            *)
(***************************************************************************)
\* The launchers dictionary of get_launcher.
Registered == {"tmux", "terminal"}

\* The order in which the registry walks the launchers.
PreferenceOrder == <<"tmux", "terminal">>

\* shutil.which(cmd) is not None
Which(cmd, B) == cmd \in B

\* TmuxLauncher.is_available / TerminalLauncher.is_available
IsAvailable(name, os, B) ==
    IF name = "tmux" THEN Which("tmux", B)
    ELSE IF os = "posix"
    THEN Which("open", B) \/ Which("gnome-terminal", B) \/ Which("xterm", B)
    ELSE os = "nt"

\* The launchers dictionary of get_launcher: identifier to class.
LauncherClass(name) ==
    IF name = "tmux" THEN "TmuxLauncher" ELSE "TerminalLauncher"

\* The characters of a launcher identifier.
IdChars(name) ==
    CASE name = "tmux"     -> <<"t", "m", "u", "x">>
      [] name = "terminal" -> <<"t", "e", "r", "m", "i", "n", "a", "l">>
      [] name = "invalid"  -> <<"i", "n", "v", "a", "l", "i", "d">>
      [] OTHER             -> <<>>

\* str(list(launchers.keys())): "['tmux', 'terminal']"
RECURSIVE ReprKeys(_)
ReprKeys(keys) ==
    IF keys = <<>> THEN <<>>
    ELSE <<"'">> \o IdChars(Head(keys)) \o <<"'">>
         \o (IF Len(keys) > 1 THEN <<",", " ">> ELSE <<>>)
         \o ReprKeys(Tail(keys))

\* f"Unknown launcher: {launcher_name}. Available: {available_launchers}"
UnknownLauncherMsg(name) ==
    <<"U", "n", "k", "n", "o", "w", "n", " ",
      "l", "a", "u", "n", "c", "h", "e", "r", ":", " ">>
    \o IdChars(name)
    \o <<".", " ", "A", "v", "a", "i", "l", "a", "b", "l", "e", ":", " ">>
    \o <<"[">> \o ReprKeys(PreferenceOrder) \o <<"]">>

\* A registry that answers an unknown name with the terminal launcher.
GetLauncher_FallsBack(name, settings) ==
    [raised   |-> FALSE,
     message  |-> <<>>,
     launcher |-> IF name \in Registered THEN name ELSE "terminal",
     class    |-> IF name \in Registered THEN LauncherClass(name)
                  ELSE "TerminalLauncher",
     settings |-> settings]

\* get_launcher(launcher_name, settings): ValueError for an unknown name,
\* else launchers[launcher_name](settings), an instance of the registered
\* class holding the settings it was given (WorkspaceLauncher.__init__).
GetLauncher(name, settings) ==
    IF name \notin Registered
    THEN [raised |-> TRUE, message |-> UnknownLauncherMsg(name),
          launcher |-> name, class |-> "none", settings |-> settings]
    ELSE [raised |-> FALSE, message |-> <<>>,
          launcher |-> name, class |-> LauncherClass(name),
          settings |-> settings]

\* A listing that forgets to ask the launcher whether it is available.
GetAvailableLaunchers_Unfiltered(settings, os, B) ==
    [raised |-> FALSE, value |-> PreferenceOrder]

\* get_available_launchers(settings)
GetAvailableLaunchers(settings, os, B) ==
    LET Keep(name) == IsAvailable(GetLauncher(name, settings).launcher, os, B)
    IN [raised |-> \E i \in 1 .. Len(PreferenceOrder) :
                       GetLauncher(PreferenceOrder[i], settings).raised,
        value  |-> SelectSeq(PreferenceOrder, Keep)]

\* A selection that skips the configured launcher and walks the fixed order.
GetBestAvailableLauncher_IgnoresPreferred(settings, os, B) ==
    LET up == {i \in 1 .. Len(PreferenceOrder) :
                  IsAvailable(PreferenceOrder[i], os, B)}
    IN [raised |-> FALSE,
        value  |-> IF up = {} THEN "terminal"
                   ELSE PreferenceOrder[CHOOSE i \in up : \A k \in up : i <= k]]

\* get_best_available_launcher(settings, project_path)
GetBestAvailableLauncher(settings, os, B) ==
    LET preferred == settings.launcher
        g  == GetLauncher(preferred, settings)
        up == {i \in 1 .. Len(PreferenceOrder) :
                  /\ ~GetLauncher(PreferenceOrder[i], settings).raised
                  /\ IsAvailable(PreferenceOrder[i], os, B)}
    IN IF ~g.raised /\ IsAvailable(g.launcher, os, B)
       THEN [raised |-> FALSE, value |-> preferred]
       ELSE IF \E i \in 1 .. Len(PreferenceOrder) :
                   /\ \A k \in up : i < k
                   /\ GetLauncher(PreferenceOrder[i], settings).raised
       THEN [raised |-> TRUE, value |-> "none"]
       ELSE IF up # {}
       THEN [raised |-> FALSE,
             value  |-> PreferenceOrder[CHOOSE i \in up : \A k \in up : i <= k]]
       ELSE [raised |-> FALSE, value |-> "terminal"]

\* Values of os.name.
OsNames == {"posix", "nt", "java"}

\* Binaries a host may have on its PATH.
Binaries == {"tmux", "open", "gnome-terminal", "xterm", "wt", "cmd"}

\* Binaries the host always has: cmd on Windows ("Windows Terminal or cmd
\* should be available").
Builtin(os) == IF os = "nt" THEN {"cmd"} ELSE {}

\* Values of settings.launcher: the registered ones and an unknown one.
PreferredIds == {"tmux", "terminal", "invalid"}

(***************************************************************************)
(* Specification of the registry: binaries come and go on the host, and    *)
(* the registry is queried at any time.                                    *)
(***************************************************************************)
InitLauncher ==
    /\ refs = {}
    /\ gitOk = TRUE
    /\ dirs = {}
    /\ osName \in OsNames
    /\ bins = Builtin(osName)
    /\ last = NoCall
    /\ tmux = NoSessions
    /\ config = DefaultSettings
    /\ run = NoRun

\* A tool is installed on the host.
Install ==
    \E b \in Binaries \ bins :
        /\ bins' = bins \cup {b}
        /\ UNCHANGED <<refs, gitOk, dirs, osName, last, tmux, config, run>>

\* A tool is removed from the host.
Uninstall ==
    \E b \in bins \ Builtin(osName) :
        /\ bins' = bins \ {b}
        /\ UNCHANGED <<refs, gitOk, dirs, osName, last, tmux, config, run>>

\* A call of get_available_launchers(settings).
CallGetAvailableLaunchers ==
    /\ last' = [op |-> "get_available_launchers", os |-> osName,
                bins |-> bins, ret |-> GetAvailableLaunchers(config, osName, bins)]
    /\ UNCHANGED <<refs, gitOk, dirs, osName, bins, tmux, config, run>>

\* A call of get_best_available_launcher(settings, project_path).
CallGetBestAvailableLauncher ==
    \E preferred \in PreferredIds :
        /\ last' = [op |-> "get_best_available_launcher", arg |-> preferred,
                    os |-> osName, bins |-> bins,
                    ret |-> GetBestAvailableLauncher(
                                [config EXCEPT !.launcher = preferred],
                                osName, bins)]
        /\ UNCHANGED <<refs, gitOk, dirs, osName, bins, tmux, config, run>>

NextLauncher ==
    \/ Install
    \/ Uninstall
    \/ CallGetAvailableLaunchers
    \/ CallGetBestAvailableLauncher

SpecLauncher == InitLauncher /\ [][NextLauncher]_vars

(***************************************************************************)
(* Branch-name generation (generate_branch_name) and the naming steps of a *)
(* run: setup_repository_info, then handle_existing_worktree when the      *)
(* worktree directory is already there.                                    *)
(***************************************************************************)
LowerLetters ==
    <<"a", "b", "c", "d", "e", "f", "g", "h", "i", "j", "k", "l", "m",
      "n", "o", "p", "q", "r", "s", "t", "u", "v", "w", "x", "y", "z">>

UpperLetters ==
    <<"A", "B", "C", "D", "E", "F", "G", "H", "I", "J", "K", "L", "M",
      "N", "O", "P", "Q", "R", "S", "T", "U", "V", "W", "X", "Y", "Z">>

Range(f) == {f[i] : i \in DOMAIN f}

LowerSet == Range(LowerLetters)

UpperSet == Range(UpperLetters)

DigitSet == Range(DigitChars)

\* The character class \d.
IsDigit(c) == c \in DigitSet

\* The characters the class [a-z0-9-] admits.
IsBranchChar(c) == c \in LowerSet \/ IsDigit(c) \/ c = "-"

\* str.lower() on one character.
ToLower(c) ==
    IF c \in UpperSet
    THEN LowerLetters[CHOOSE i \in 1 .. 26 : UpperLetters[i] = c]
    ELSE c

\* Characters str.strip() removes.
IsSpace(c) == c \in {" ", "\n", "\t", "\r"}

\* str.strip()
Strip(s) ==
    LET keep == {i \in 1 .. Len(s) : ~IsSpace(s[i])}
    IN IF keep = {} THEN <<>>
       ELSE SubSeq(s, CHOOSE i \in keep : \A k \in keep : i <= k,
                      CHOOSE i \in keep : \A k \in keep : i >= k)

\* s.split("\n")[-1]
LastLine(s) ==
    LET nl == {i \in 1 .. Len(s) : s[i] = "\n"}
    IN IF nl = {} THEN s
       ELSE SubSeq(s, (CHOOSE i \in nl : \A k \in nl : i >= k) + 1, Len(s))

\* re.sub(r"[^a-z0-9-]", "", branch_name.lower())
Sanitize(s) == SelectSeq([i \in 1 .. Len(s) |-> ToLower(s[i])], IsBranchChar)

\* branch_name[:50]
MaxBranchLen == 50

\* min_branch_length = 3
MinBranchLength == 3

\* A clean-up that forgets to limit the length.
CleanBranchName_NoLimit(result) == Sanitize(LastLine(Strip(result)))

\* The clean-up of the AI tool's answer: last line, lowercased, filtered,
\* limited to 50 characters.
CleanBranchName(result) ==
    LET filtered == Sanitize(LastLine(Strip(result)))
    IN SubSeq(filtered, 1, IF Len(filtered) < MaxBranchLen
                           THEN Len(filtered) ELSE MaxBranchLen)

\* re.search(r"#(\d+)", task): the digits after the first '#' that is
\* followed by a digit, or the empty sequence when there is no match.
IssueMatch(task) ==
    LET hits == {i \in 1 .. Len(task) - 1 :
                    task[i] = "#" /\ IsDigit(task[i + 1])}
    IN IF hits = {} THEN <<>>
       ELSE LET i    == CHOOSE h \in hits : \A k \in hits : h <= k
                ends == {j \in i + 1 .. Len(task) :
                            \A k \in i + 1 .. j : IsDigit(task[k])}
            IN SubSeq(task, i + 1, CHOOSE j \in ends : \A k \in ends : j >= k)

\* generate_branch_name(task, ai_tool=..): stdout is what the AI tool
\* printed (run with check=False, so its exit code raises nothing), t the
\* clock reading of the final fallback.
GenerateBranchName(task, stdout, t) ==
    LET result == Strip(stdout)
        clean  == CleanBranchName(result)
    IN IF result # <<>> /\ Len(clean) >= MinBranchLength
       THEN [name |-> clean, source |-> "ai"]
       ELSE IF IssueMatch(task) # <<>>
       THEN [name   |-> <<"i", "s", "s", "u", "e", "-">> \o IssueMatch(task),
             source |-> "issue"]
       ELSE [name   |-> <<"t", "a", "s", "k", "-">> \o StrftimeYmdHMS(t),
             source |-> "timestamp"]

\* setup_repository_info(task, branch, ai_tool): branch is the --branch
\* option (empty when not given); the AI tool is asked only without it.
SetupRepositoryInfo(task, branch, stdout, answer, t, R, ok) ==
    LET gen     == IF branch # <<>>
                   THEN [name |-> branch, source |-> "option"]
                   ELSE GenerateBranchName(task, stdout, t)
        r       == HandleBranchConflict(gen.name, answer, t, t, R, ok)
    IN [desired |-> gen.name, source |-> gen.source,
        name |-> r.name, is_existing |-> r.is_existing,
        prompts |-> r.prompts, raised |-> r.raised]

\* base_dir / repo_name / branch_name
WorktreePath(base_dir, repo_name, branch_name) ==
    <<base_dir, repo_name, branch_name>>

RemovePrompt == "Remove existing directory and continue?"

\* handle_existing_worktree(worktree_path, force=.., branch_name=..,
\* base_dir=.., repo_name=..): the path and name to go on with, the
\* directories left on disk and the prompts issued.
\* A conflict handling that clears the directory before it asks.
HandleExistingWorktree_RemovesFirst(worktree_path, force, branch_name, base_dir, repo_name, answer, t, D) ==
    LET alt == branch_name \o <<"-">> \o StrftimeHMS(t)
    IN IF force \/ ClickConfirm(answer)
       THEN [path |-> worktree_path, name |-> branch_name,
             dirs |-> D \ {worktree_path},
             prompts |-> IF force THEN <<>> ELSE <<RemovePrompt>>]
       ELSE [path |-> WorktreePath(base_dir, repo_name, alt), name |-> alt,
             dirs |-> D \ {worktree_path}, prompts |-> <<RemovePrompt>>]

HandleExistingWorktree(worktree_path, force, branch_name, base_dir, repo_name, answer, t, D) ==
    IF force
    THEN [path |-> worktree_path, name |-> branch_name,
          dirs |-> D \ {worktree_path}, prompts |-> <<>>]
    ELSE IF ClickConfirm(answer)
    THEN [path |-> worktree_path, name |-> branch_name,
          dirs |-> D \ {worktree_path}, prompts |-> <<RemovePrompt>>]
    ELSE LET alt == branch_name \o <<"-">> \o StrftimeHMS(t)
         IN [path |-> WorktreePath(base_dir, repo_name, alt), name |-> alt,
             dirs |-> D, prompts |-> <<RemovePrompt>>]

(***************************************************************************)
(* Specification of the naming steps of one run of main.                   *)
(***************************************************************************)
\* pattern repeated n times.
Rep(pattern, n) == [i \in 1 .. n * Len(pattern) |-> pattern[((i - 1) % Len(pattern)) + 1]]

\* Characters the AI tool's answer is made of.
AiChars == {"a", "B", "7", "-", "\n", "/"}

AiPatterns == UNION {[1 .. n -> AiChars] : n \in 1 .. MaxPat}

\* What the AI tool may print: nothing, or a pattern repeated up to and
\* beyond the length limit.
AiOutputs == {<<>>} \cup {Rep(p, n) : p \in AiPatterns, n \in {1, 3, 51}}

\* Values of --branch: not given, a plain name, a name with characters
\* outside [a-z0-9-].
SlashName == <<"B", "/", "x">>

BranchOptions == {<<>>, Rep(<<"a">>, 3), SlashName}

\* Task descriptions: with an issue number, without, with a bare '#'.
Tasks ==
    {<<"F", "i", "x", " ", "#", "1", "2", " ", "#", "3">>,
     <<"S", "o", "m", "e", " ", "t", "a", "s", "k">>,
     <<"#", " ", "5">>}

\* Branches that may already be there when the run starts.
NamingBases == {Rep(<<"a">>, 3), Rep(<<"a">>, MaxBranchLen), SlashName}

\* How much of a branch's neighbourhood is taken: nothing, the branch, the
\* branch and its timestamp candidate, or all of it up to <name>-99.
NamingRepoFamily ==
    {{}, RepoRefs(Rep(<<"a">>, 3), Clock(15, 30, 0), "local", "remote",
                  IncrStop - 1, {}, "none")} \cup
    {RepoRefs(b, Clock(15, 30, 0), "local", wt, 0, {}, "none") :
        b \in NamingBases, wt \in {"none", "remote"}}

BaseDir == "worktrees"

RepoName == "repo"

\* Worktree directories that may already be there when the run starts.
NamingDirFamily ==
    {{},
     UNION {{WorktreePath(BaseDir, RepoName, b),
             WorktreePath(BaseDir, RepoName,
                          TimestampCandidate(b, Clock(15, 30, 0)))} :
               b \in NamingBases}}

InitNaming ==
    /\ refs \in NamingRepoFamily
    /\ gitOk = TRUE
    /\ dirs \in NamingDirFamily
    /\ osName = "posix"
    /\ bins = {}
    /\ last = NoCall
    /\ tmux = NoSessions
    /\ config = DefaultSettings
    /\ run = NoRun

\* main calls setup_repository_info(task, branch, ai_tool).
CallSetupRepositoryInfo ==
    \E task \in Tasks, branch \in BranchOptions, answer \in BOOLEAN,
       t \in {Clock(15, 30, 0)} :
        \E stdout \in IF branch = <<>> THEN AiOutputs ELSE {<<>>} :
            /\ last = NoCall
            /\ last' = [op |-> "setup_repository_info", branch |-> branch,
                        ret |-> SetupRepositoryInfo(task, branch, stdout,
                                                    answer, t, refs, gitOk)]
            /\ UNCHANGED <<refs, gitOk, dirs, osName, bins, tmux, config, run>>

\* setup_worktree_and_launcher finds the worktree directory of the resolved
\* branch on disk and calls handle_existing_worktree.
CallHandleExistingWorktree ==
    \E force \in BOOLEAN, answer \in BOOLEAN, t \in {Clock(15, 30, 0)} :
        LET path == WorktreePath(BaseDir, RepoName, last.ret.name)
            r    == HandleExistingWorktree(path, force, last.ret.name, BaseDir,
                                           RepoName, answer, t, dirs)
        IN /\ last.op = "setup_repository_info"
           /\ ~last.ret.raised
           /\ path \in dirs
           /\ dirs' = r.dirs
           /\ last' = [op |-> "handle_existing_worktree",
                       branch |-> last.branch,
                       ret |-> [desired |-> last.ret.desired,
                                source |-> last.ret.source,
                                is_existing |-> last.ret.is_existing,
                                resolved |-> last.ret.name,
                                name |-> r.name, path |-> r.path,
                                prompts |-> r.prompts, raised |-> FALSE]]
           /\ UNCHANGED <<refs, gitOk, osName, bins, tmux, config, run>>

NextNaming == CallSetupRepositoryInfo \/ CallHandleExistingWorktree

SpecNaming == InitNaming /\ [][NextNaming]_vars

(***************************************************************************)
(* The two workspace launchers (launchers/tmux.py, launchers/terminal.py). *)
(* A subprocess is recorded as the command line it was started with; what  *)
(* it does is seen through its exit code and its output only.              *)
(***************************************************************************)
\* os.environ.get(key, default)
EnvironGet(environ, key, default) ==
    IF key \in DOMAIN environ THEN environ[key] ELSE default

\* str(i) for an integer.
IntStr(n) == IF n < 0 THEN <<"-">> \o DecStr(0 - n) ELSE DecStr(n)

\* split()[-1] of a stripped, non-empty text: its last whitespace-separated
\* token.
LastToken(s) ==
    LET idx == {i \in 1 .. Len(s) : IsSpace(s[i])}
        cut == IF idx = {} THEN 0 ELSE CHOOSE i \in idx : \A k \in idx : k <= i
    IN SubSeq(s, cut + 1, Len(s))

\* int(token): decimal digits with an optional sign, ValueError otherwise.
ParseInt(tok) ==
    LET signed == tok # <<>> /\ tok[1] \in {"+", "-"}
        digits == IF signed THEN Tail(tok) ELSE tok
        ok     == digits # <<>> /\ \A i \in 1 .. Len(digits) : IsDigit(digits[i])
        val[i \in 0 .. Len(digits)] ==
            IF i = 0 THEN 0
            ELSE 10 * val[i - 1]
                 + (CHOOSE d \in 0 .. 9 : DigitChars[d + 1] = digits[i])
    IN IF ~ok THEN [raised |-> TRUE, value |-> 0]
       ELSE [raised |-> FALSE,
             value  |-> IF signed /\ tok[1] = "-" THEN 0 - val[Len(digits)]
                        ELSE val[Len(digits)]]

\* A query that trusts the default and never asks tmux.
GetPaneBaseIndex_AlwaysZero(exit, stdout) == 0

\* TmuxLauncher.get_pane_base_index: `tmux show-option -g pane-base-index`
\* answers "pane-base-index 1"; 0 when the command fails, prints nothing or
\* prints something that is not an integer.
GetPaneBaseIndex(exit, stdout) ==
    LET r      == RunCommand(exit, TRUE, TRUE)
        result == Strip(stdout)
    IN IF r.raised \/ result = <<>> THEN 0
       ELSE LET n == ParseInt(LastToken(Strip(result)))
            IN IF n.raised THEN 0 ELSE n.value

\* task.replace("'", "'\\''")
RECURSIVE EscapeQuotes(_)
EscapeQuotes(task) ==
    IF task = <<>> THEN <<>>
    ELSE (IF Head(task) = "'" THEN <<"'", "\\", "'", "'">> ELSE <<Head(task)>>)
         \o EscapeQuotes(Tail(task))

\* The text between the tool and the task: " --dangerously-skip-permissions '"
SkipPermissions ==
    <<" ", "-", "-", "d", "a", "n", "g", "e", "r", "o", "u", "s", "l", "y",
      "-", "s", "k", "i", "p", "-", "p", "e", "r", "m", "i", "s", "s", "i",
      "o", "n", "s", " ", "'">>

\* An invocation that passes the task without escaping it.
TmuxAiCmd_Unescaped(ai_tool, task) ==
    ai_tool \o SkipPermissions \o task \o <<"'">>

\* tmux.py: f"{ai_tool} --dangerously-skip-permissions '{escaped_task}'"
TmuxAiCmd(ai_tool, task) ==
    ai_tool \o SkipPermissions \o EscapeQuotes(task) \o <<"'">>

\* terminal.py: f"{ai_tool} --dangerously-skip-permissions '{escaped_task}'"
TerminalAiCmd(ai_tool, task) ==
    ai_tool \o SkipPermissions \o EscapeQuotes(task) \o <<"'">>

\* The command lines the tmux launcher runs.
TmuxHasSession(session) ==
    [prog |-> "tmux", sub |-> "has-session", t |-> session]

TmuxNewSession(session, window_name, worktree_path) ==
    [prog |-> "tmux", sub |-> "new-session", d |-> TRUE, s |-> session,
     n |-> window_name, c |-> worktree_path]

TmuxNewWindow(session, window_name, worktree_path) ==
    [prog |-> "tmux", sub |-> "new-window", t |-> session \o <<":">>,
     n |-> window_name, c |-> worktree_path]

TmuxShowOption ==
    [prog |-> "tmux", sub |-> "show-option", g |-> TRUE,
     option |-> "pane-base-index"]

\* f"{session}:{window_name}"
WindowTarget(session, window_name) == session \o <<":">> \o window_name

\* f"{session}:{window_name}.{pane}"
PaneTarget(session, window_name, pane) ==
    WindowTarget(session, window_name) \o <<".">> \o IntStr(pane)

TmuxSplitWindow(session, window_name, worktree_path) ==
    [prog |-> "tmux", sub |-> "split-window",
     t |-> WindowTarget(session, window_name), h |-> TRUE,
     c |-> worktree_path]

TmuxSendKeys(target, keys) ==
    [prog |-> "tmux", sub |-> "send-keys", t |-> target, keys |-> keys,
     key |-> "Enter"]

TmuxSelectPane(target) ==
    [prog |-> "tmux", sub |-> "select-pane", t |-> target]

\* The tmux server: the windows it holds, each in a session.
Window(session, window_name, worktree_path) ==
    [session |-> session, window |-> window_name, cwd |-> worktree_path]

\* What setup_workspace hands back: value is the returned boolean (no value
\* when raised), cmds the subprocesses started, in order, echo the messages
\* printed, tmux the server afterwards.
SetupResult(value, raised, cmds, echo, T) ==
    [value |-> value, raised |-> raised, cmds |-> cmds, echo |-> echo,
     tmux |-> T]

\* A launcher that starts tmux without looking for it first.
TmuxGuard_Skipped(os, B) == TRUE

\* if not self.is_available(): ... return False
TmuxGuard(os, B) == IsAvailable("tmux", os, B)

\* A launcher that creates a session although the probe found one.
TmuxCreate_AlwaysSession(session_exists, session, window_name, worktree_path) ==
    TmuxNewSession(session, window_name, worktree_path)

\* if not session_exists: new-session ... else: new-window ...
TmuxCreate(session_exists, session, window_name, worktree_path) ==
    IF ~session_exists
    THEN TmuxNewSession(session, window_name, worktree_path)
    ELSE TmuxNewWindow(session, window_name, worktree_path)

\* TmuxLauncher.setup_workspace(worktree_path, branch_name, task, ai_tool) on
\* a host (os, B) with environment environ and tmux server T.  out.fail
\* names the steps whose subprocess exits non-zero, out.pbi is the exit code
\* and output of the pane-base-index query.  Only the has-session probe and
\* the pane-base-index query are inside a try: every other run_command has
\* check=True and its CalledProcessError leaves setup_workspace.
TmuxSetupWorkspace(settings, worktree_path, branch_name, task, ai_tool, os, B, environ, T, out) ==
    LET session        == settings.launchers.tmux.session
        window_name    == branch_name
        \* `tmux has-session -t <session>` exits 0 or 1.
        session_exists ==
            ~RunCommand(IF \E w \in T : w.session = session THEN 0 ELSE 1,
                        TRUE, TRUE).raised
        base_index     == GetPaneBaseIndex(out.pbi.exit, out.pbi.stdout)
        left_pane      == base_index
        right_pane     == base_index + 1
        editor         == IF settings.editor_command # <<>>
                          THEN settings.editor_command
                          ELSE EnvironGet(environ, "EDITOR", <<"v", "i", "m">>)
        ai_cmd         == TmuxAiCmd(ai_tool, task)
        plan ==
            <<[step |-> "has-session", caught |-> TRUE,
               cmd |-> TmuxHasSession(session)],
              [step |-> "create", caught |-> FALSE,
               cmd |-> TmuxCreate(session_exists, session, window_name,
                                  worktree_path)],
              [step |-> "show-option", caught |-> TRUE,
               cmd |-> TmuxShowOption],
              [step |-> "split-window", caught |-> FALSE,
               cmd |-> TmuxSplitWindow(session, window_name, worktree_path)],
              [step |-> "send-keys-editor", caught |-> FALSE,
               cmd |-> TmuxSendKeys(
                           PaneTarget(session, window_name, left_pane),
                           editor)],
              [step |-> "send-keys-ai", caught |-> FALSE,
               cmd |-> TmuxSendKeys(
                           PaneTarget(session, window_name, right_pane),
                           ai_cmd)],
              [step |-> "select-pane", caught |-> FALSE,
               cmd |-> TmuxSelectPane(
                           PaneTarget(session, window_name, right_pane))]>>
        exit(i) == IF plan[i].step \in out.fail THEN 1 ELSE 0
        aborts  == {i \in 1 .. Len(plan) :
                       /\ ~plan[i].caught
                       /\ RunCommand(exit(i), FALSE, TRUE).raised}
        n       == IF aborts = {} THEN Len(plan)
                   ELSE CHOOSE i \in aborts : \A k \in aborts : i <= k
        created == n > 2 \/ aborts = {}
        echo    == <<IF session_exists THEN "Using existing tmux session"
                     ELSE "Creating tmux session">>
                   \o (IF session_exists THEN <<"Creating tmux window">>
                       ELSE <<>>)
                   \o (IF n >= 4 THEN <<"Creating split panes">> ELSE <<>>)
    IN IF ~TmuxGuard(os, B)
       THEN SetupResult(FALSE, FALSE, <<>>, <<"tmux is not installed">>, T)
       ELSE SetupResult(aborts = {}, aborts # {},
                        [i \in 1 .. n |-> plan[i].cmd], echo,
                        IF created
                        THEN T \cup {Window(session, window_name,
                                            worktree_path)}
                        ELSE T)

\* The editors TerminalLauncher._open_editor looks for, in order.
KnownEditors == <<"code", "cursor", "subl", "atom">>

\* The characters of an editor binary's name.
EditorChars(cmd) ==
    CASE cmd = "code"   -> <<"c", "o", "d", "e">>
      [] cmd = "cursor" -> <<"c", "u", "r", "s", "o", "r">>
      [] cmd = "subl"   -> <<"s", "u", "b", "l">>
      [] cmd = "atom"   -> <<"a", "t", "o", "m">>
      [] OTHER          -> <<>>

\* TerminalLauncher._open_terminal_with_command(worktree_path, command):
\* the platform dispatch.  The cmd fallback passes shell=True to
\* run_command, which takes no such argument: the call is a TypeError and
\* starts nothing.
OpenTerminalWithCommand(worktree_path, command, os, B, out) ==
    LET exit == IF "terminal" \in out.fail THEN 1 ELSE 0
        ran(cmd) == [cmds   |-> <<cmd>>,
                     raised |-> RunCommand(exit, FALSE, TRUE).raised,
                     error  |-> "CalledProcessError"]
        nothing  == [cmds |-> <<>>, raised |-> FALSE, error |-> "none"]
    IN IF os = "posix"
       THEN IF Which("open", B)
            THEN ran([prog |-> "osascript", cd |-> worktree_path,
                      command |-> command])
            ELSE IF Which("gnome-terminal", B)
            THEN ran([prog |-> "gnome-terminal", cd |-> worktree_path,
                      command |-> command \o <<";", " ", "e", "x", "e", "c",
                                               " ", "b", "a", "s", "h">>])
            ELSE IF Which("xterm", B)
            THEN ran([prog |-> "xterm", cd |-> worktree_path,
                      command |-> command \o <<" ", "&", "&", " ", "e", "x",
                                               "e", "c", " ", "b", "a", "s",
                                               "h">>])
            ELSE nothing
       ELSE IF os = "nt"
       THEN IF Which("wt", B)
            THEN ran([prog |-> "wt", cd |-> worktree_path,
                      command |-> command])
            ELSE [cmds |-> <<>>, raised |-> TRUE, error |-> "TypeError"]
       ELSE nothing

\* TerminalLauncher._open_editor(worktree_path): the configured editor,
\* else the first known editor on the PATH, else none; the editor runs with
\* check=False, so its exit code is ignored.
OpenEditor(settings, worktree_path, B, out) ==
    LET found == {i \in 1 .. Len(KnownEditors) : Which(KnownEditors[i], B)}
        editor_cmd ==
            IF settings.editor_command # <<>> THEN settings.editor_command
            ELSE IF found = {} THEN <<>>
            ELSE EditorChars(
                     KnownEditors[CHOOSE i \in found : \A k \in found : i <= k])
        exit == IF "editor" \in out.fail THEN 1 ELSE 0
    IN IF editor_cmd # <<>>
       THEN [cmds   |-> <<[prog |-> "editor", argv0 |-> editor_cmd,
                           path |-> worktree_path]>>,
             raised |-> RunCommand(exit, FALSE, FALSE).raised,
             echo   |-> <<"Opening editor">>]
       ELSE [cmds |-> <<>>, raised |-> FALSE,
             echo |-> <<"No editor configured">>]

\* A launcher that opens the terminal without looking for one first.
TerminalGuard_Skipped(os, B) == TRUE

\* if not self.is_available(): ... return False
TerminalGuard(os, B) == IsAvailable("terminal", os, B)

\* TerminalLauncher.setup_workspace(worktree_path, branch_name, task,
\* ai_tool): only CalledProcessError is caught.
TerminalSetupWorkspace(settings, worktree_path, branch_name, task, ai_tool, os, B, T, out) ==
    LET ai_cmd == TerminalAiCmd(ai_tool, task)
        term   == OpenTerminalWithCommand(worktree_path, ai_cmd, os, B, out)
        editor == OpenEditor(settings, worktree_path, B, out)
    IN IF ~TerminalGuard(os, B)
       THEN SetupResult(FALSE, FALSE, <<>>,
                        <<"Terminal launcher is not available">>, T)
       ELSE IF term.raised /\ term.error = "CalledProcessError"
       THEN SetupResult(FALSE, FALSE, term.cmds,
                        <<"Launching terminal", "Failed to launch terminal">>,
                        T)
       ELSE IF term.raised
       THEN SetupResult(FALSE, TRUE, term.cmds, <<"Launching terminal">>, T)
       ELSE SetupResult(TRUE, FALSE, term.cmds \o editor.cmds,
                        <<"Launching terminal">> \o editor.echo, T)

\* launcher.setup_workspace(...) for the launcher get_launcher built.
SetupWorkspace(launcher, worktree_path, branch_name, task, ai_tool, os, B, environ, T, out) ==
    IF launcher.class = "TmuxLauncher"
    THEN TmuxSetupWorkspace(launcher.settings, worktree_path, branch_name,
                            task, ai_tool, os, B, environ, T, out)
    ELSE TerminalSetupWorkspace(launcher.settings, worktree_path,
                                branch_name, task, ai_tool, os, B, T, out)

SwitchPrompt == "Switch to workspace window?"

AttachPrompt == "Attach to tmux session now?"

\* What handle_attachment did: the prompts it issued, the subprocesses it
\* started, the messages it printed.
Attached(prompts, cmds, echo) ==
    [prompts |-> prompts, cmds |-> cmds, echo |-> echo, raised |-> FALSE]

\* An attachment that ignores the auto-attach setting.
AutoAttach_Ignored(settings) == TRUE

\* if not self.settings.launchers.tmux.auto_attach: return
AutoAttach(settings) == settings.launchers.tmux.auto_attach

\* TmuxLauncher.handle_attachment(worktree_path, branch_name): inside tmux
\* (TMUX set and non-empty) offer to switch the client, else offer to
\* attach; both subprocesses run with check=False.
TmuxHandleAttachment(settings, branch_name, environ, answer, B, exit) ==
    LET session     == settings.launchers.tmux.session
        window_name == branch_name
        tmux_path   == Which("tmux", B)
        switch      == [prog |-> "tmux", sub |-> "switch-client",
                        t |-> WindowTarget(session, window_name)]
        attach      == [prog |-> "tmux", sub |-> "attach", t |-> session,
                        select |-> window_name]
    IN IF ~AutoAttach(settings) THEN Attached(<<>>, <<>>, <<>>)
       ELSE IF EnvironGet(environ, "TMUX", <<>>) # <<>>
       THEN IF ClickConfirm(answer) /\ tmux_path
            THEN Attached(<<SwitchPrompt>>, <<switch>>,
                          <<"Already inside tmux session">>
                          \o (IF exit # 0 THEN <<"Failed to switch window">>
                              ELSE <<>>))
            ELSE Attached(<<SwitchPrompt>>, <<>>,
                          <<"Already inside tmux session">>)
       ELSE IF ClickConfirm(answer) /\ tmux_path
       THEN Attached(<<AttachPrompt>>, <<attach>>, <<>>)
       ELSE Attached(<<AttachPrompt>>, <<>>, <<>>)

\* TerminalLauncher.handle_attachment: nothing to do.
TerminalHandleAttachment(settings, branch_name) ==
    Attached(<<>>, <<>>, <<>>)

\* launcher.handle_attachment(worktree_path, branch_name)
HandleAttachment(launcher, branch_name, environ, answer, B, exit) ==
    IF launcher.class = "TmuxLauncher"
    THEN TmuxHandleAttachment(launcher.settings, branch_name, environ,
                              answer, B, exit)
    ELSE TerminalHandleAttachment(launcher.settings, branch_name)

(***************************************************************************)
(* Specification of the launchers: on a host with a tmux server, one call  *)
(* of get_launcher, of setup_workspace or of handle_attachment is made, as *)
(* a run of main makes them.                                               *)
(***************************************************************************)
\* Bound: task descriptions of at most MaxTaskLen characters.
MaxTaskLen == 3

Work == <<"w", "o", "r", "k">>

Nano == <<"n", "a", "n", "o">>

Aider == <<"a", "i", "d", "e", "r">>

\* The task of the quoting scenario: Fix 'auth' issue
FixAuth ==
    <<"F", "i", "x", " ", "'", "a", "u", "t", "h", "'", " ", "i", "s", "s",
      "u", "e">>

\* Task descriptions: every text of letters, single quotes and backslashes
\* up to the bound, and the scenario's.
TaskTexts ==
    {FixAuth} \cup
    UNION {[1 .. k -> {"a", "'", "\\"}] : k \in 0 .. MaxTaskLen}

\* Settings a launcher may be built with.
WorkspaceSettings ==
    {[DefaultSettings EXCEPT !.editor_command = e,
                             !.launchers.tmux.session = s,
                             !.launchers.tmux.auto_attach = a] :
        e \in {<<>>, Nano}, s \in {Dev, Work}, a \in BOOLEAN}

\* Hosts: what is on the PATH besides the built-in commands.
HostBins ==
    {{}, {"tmux"}, {"open", "code"}, {"tmux", "xterm", "atom"},
     {"gnome-terminal", "xterm"}, {"tmux", "wt", "cursor", "subl"}}

\* tmux servers a run may find: no session, or the session of an earlier
\* run.
MainWindow == <<"m", "a", "i", "n">>

ServerFamily ==
    {NoSessions} \cup
    {{Window(s, MainWindow, WorktreePath(BaseDir, RepoName, MainWindow))} :
        s \in {Dev, Work}}

\* Answers of `tmux show-option -g pane-base-index`.
PaneBaseOutputs ==
    {[exit |-> 0, stdout |-> <<"pane-base-index", " ", "1">>],
     [exit |-> 0, stdout |-> <<"p", " ", "0", "\n">>],
     [exit |-> 0, stdout |-> <<"p", " ", "x">>],
     [exit |-> 0, stdout |-> <<>>],
     [exit |-> 1, stdout |-> <<>>]}

\* The steps of a setup whose subprocess may exit non-zero.
SetupSteps ==
    {"create", "split-window", "send-keys-editor", "send-keys-ai",
     "select-pane", "terminal", "editor"}

\* Up to two steps fail in one setup.
FailSets == {F \in SUBSET SetupSteps : Cardinality(F) <= 2}

NoEnviron == [k \in {} |-> <<>>]

TmuxSocket == <<"/", "t", "m", "p", "/", "t", "m", "u", "x">>

SetupInput(task, ai_tool, settings, branch, environ, fail, pbi) ==
    [task |-> task, ai_tool |-> ai_tool, settings |-> settings,
     branch |-> branch, environ |-> environ,
     out |-> [fail |-> fail, pbi |-> pbi]]

PaneBaseOne == [exit |-> 0, stdout |-> <<"p", " ", "1">>]

\* The calls of setup_workspace: every text with everything else at its
\* default, and every setting, environment and outcome with the scenario's
\* text.
SetupInputs ==
    {SetupInput(task, ai_tool, DefaultSettings, Feature, NoEnviron, {},
                PaneBaseOne) :
        task \in TaskTexts, ai_tool \in {Claude, Aider}}
    \cup
    {SetupInput(FixAuth, Claude, settings, branch, environ, fail,
                PaneBaseOne) :
        settings \in {s \in WorkspaceSettings : s.launchers.tmux.auto_attach},
        branch \in {Feature, FixBug},
        environ \in {NoEnviron, [EDITOR |-> Nano]},
        fail \in FailSets}
    \cup
    {SetupInput(FixAuth, Claude, DefaultSettings, Feature, NoEnviron, {},
                pbi) : pbi \in PaneBaseOutputs}

InitWorkspace ==
    /\ refs = {}
    /\ gitOk = TRUE
    /\ dirs = {}
    /\ osName \in OsNames
    /\ bins \in {B \cup Builtin(osName) : B \in HostBins}
    /\ last = NoCall
    /\ tmux \in ServerFamily
    /\ config = DefaultSettings
    /\ run = NoRun

\* A call of get_launcher(launcher_name, settings).
CallGetLauncher ==
    \E name \in PreferredIds, settings \in WorkspaceSettings :
        /\ last = NoCall
        /\ last' = [op |-> "get_launcher", arg |-> name,
                    settings |-> settings,
                    ret |-> GetLauncher(name, settings)]
        /\ UNCHANGED <<refs, gitOk, dirs, osName, bins, tmux, config, run>>

\* A call of setup_workspace on the launcher get_launcher built.
CallSetupWorkspace ==
    \E name \in Registered, in \in SetupInputs :
        LET launcher == GetLauncher(name, in.settings)
            path     == WorktreePath(BaseDir, RepoName, in.branch)
            r        == SetupWorkspace(launcher, path, in.branch, in.task,
                                       in.ai_tool, osName, bins, in.environ,
                                       tmux, in.out)
        IN /\ last = NoCall
           /\ last' = [op |-> "setup_workspace", launcher |-> name,
                       in |-> in, path |-> path, before |-> tmux, ret |-> r]
           /\ tmux' = r.tmux
           /\ UNCHANGED <<refs, gitOk, dirs, osName, bins, config, run>>

\* A call of handle_attachment on the launcher get_launcher built.
CallHandleAttachment ==
    \E name \in Registered, settings \in WorkspaceSettings,
       branch \in {Feature, FixBug},
       environ \in {NoEnviron, [TMUX |-> TmuxSocket], [TMUX |-> <<>>]},
       answer \in BOOLEAN, exit \in {0, 1} :
        LET launcher == GetLauncher(name, settings) IN
        /\ last = NoCall
        /\ last' = [op |-> "handle_attachment", launcher |-> name,
                    settings |-> settings, branch |-> branch,
                    environ |-> environ, answer |-> answer,
                    ret |-> HandleAttachment(launcher, branch, environ,
                                             answer, bins, exit)]
        /\ UNCHANGED <<refs, gitOk, dirs, osName, bins, tmux, config, run>>

NextWorkspace ==
    \/ CallGetLauncher
    \/ CallSetupWorkspace
    \/ CallHandleAttachment

SpecWorkspace == InitWorkspace /\ [][NextWorkspace]_vars

(***************************************************************************)
(* The orchestration of a run: main, create_worktree and                   *)
(* setup_worktree_and_launcher (src/lets/cli.py).                          *)
(***************************************************************************)
\* The git command lines of create_worktree.
GitFetch == [prog |-> "git", sub |-> "fetch", remote |-> "origin"]

GitWorktreeAdd(worktree_path, branch_name) ==
    [prog |-> "git", sub |-> "worktree add", b |-> FALSE,
     path |-> worktree_path, branch |-> branch_name]

GitWorktreeAddNew(branch_name, worktree_path, base_branch) ==
    [prog |-> "git", sub |-> "worktree add", b |-> TRUE,
     branch |-> branch_name, path |-> worktree_path, base |-> base_branch]

GitPush(branch_name, cwd) ==
    [prog |-> "git", sub |-> "push", set_upstream |-> TRUE,
     remote |-> "origin", branch |-> branch_name, cwd |-> cwd]

GitSetUpstream(branch_name, cwd) ==
    [prog |-> "git", sub |-> "branch", set_upstream_to |-> "origin/main",
     branch |-> branch_name, cwd |-> cwd]

MainBranch == <<"m", "a", "i", "n">>

\* for branch in ["origin/main", "origin/master", "main", "master"]
DefaultBases ==
    <<Origin(MainBranch), Origin(<<"m", "a", "s", "t", "e", "r">>),
      MainBranch, <<"m", "a", "s", "t", "e", "r">>>>

\* get_base_branch(custom_base): the custom base when it verifies, else the
\* first default that verifies, else HEAD.
\* A get_base_branch that returns the custom base without verifying it.
GetBaseBranch_CustomUnchecked(custom_base, R, ok) ==
    IF custom_base # <<>> THEN custom_base ELSE <<"H", "E", "A", "D">>

GetBaseBranch(custom_base, R, ok) ==
    LET verifies(b) ==
            ~RunCommand(GitRevParseVerify(b, R, ok), TRUE, TRUE).raised
        found == {i \in 1 .. Len(DefaultBases) : verifies(DefaultBases[i])}
    IN IF custom_base # <<>> /\ verifies(custom_base) THEN custom_base
       ELSE IF found # {}
       THEN DefaultBases[CHOOSE i \in found : \A k \in found : i <= k]
       ELSE <<"H", "E", "A", "D">>

\* create_worktree(worktree_path, branch_name, base_branch,
\* is_existing_branch=..): git gives the exit codes of fetch, worktree add
\* and push.  fetch and push run with check=False, so only worktree add can
\* raise, and the handler of a failed push is never entered.
\* A create_worktree that reports success whatever git worktree add says.
CreateWorktree_AddUnchecked(worktree_path, branch_name, base_branch, is_existing_branch, git) ==
    [value |-> TRUE, raised |-> FALSE,
     cmds  |-> <<GitFetch, GitWorktreeAdd(worktree_path, branch_name)>>,
     echo  |-> <<>>]

CreateWorktree(worktree_path, branch_name, base_branch, is_existing_branch, git) ==
    LET fetch == RunCommand(git.fetch, TRUE, FALSE)
        add   == RunCommand(git.add, TRUE, TRUE)
        push  == RunCommand(git.push, TRUE, FALSE)
        addCmd == IF is_existing_branch
                  THEN GitWorktreeAdd(worktree_path, branch_name)
                  ELSE GitWorktreeAddNew(branch_name, worktree_path,
                                         base_branch)
    IN IF fetch.raised \/ add.raised
       THEN [value |-> FALSE, raised |-> FALSE,
             cmds  |-> <<GitFetch>>
                       \o (IF fetch.raised THEN <<>> ELSE <<addCmd>>),
             echo  |-> <<"Failed to create worktree">>]
       ELSE [value |-> TRUE, raised |-> FALSE,
             cmds  |-> <<GitFetch, addCmd>>
                       \o (IF is_existing_branch THEN <<>>
                           ELSE <<GitPush(branch_name, worktree_path)>>
                                \o (IF push.raised
                                    THEN <<GitSetUpstream(branch_name,
                                                          worktree_path)>>
                                    ELSE <<>>)),
             echo  |-> <<>>]

\* copy_env_files(source_dir, dest_dir, env_files): the files of env_files
\* that exist in the source directory are copied.
CopyEnvFiles(present, env_files) ==
    SelectSeq(env_files, LAMBDA f : f \in present)

\* get_git_info(): sys.exit(1) outside a git repository.
GetGitInfo(ok) ==
    [exit |-> ~ok, repo_name |-> "repo",
     echo |-> IF ok THEN <<>> ELSE <<"Not in a git repository">>]

\* settings.ai_tool if ai_tool == "claude" else ai_tool
EffectiveAiTool(ai_tool, settings) ==
    IF ai_tool = Claude THEN settings.ai_tool ELSE ai_tool

\* launcher or settings.launcher or get_best_available_launcher(...)
SelectLauncher(launcher, settings, os, B) ==
    IF launcher # "" THEN launcher
    ELSE IF settings.launcher # "" THEN settings.launcher
    ELSE GetBestAvailableLauncher(settings, os, B).value

\* A validation that lets every launcher through.
LauncherValid_Skipped(selected_launcher, available_launchers) == TRUE

\* if selected_launcher not in available_launchers: ... sys.exit(1)
LauncherValid(selected_launcher, available_launchers) ==
    \E i \in 1 .. Len(available_launchers) :
        available_launchers[i] = selected_launcher

\* A main that goes on to the worktree whatever --dry-run says.
DryRun_Ignored(args) == FALSE

\* if dry_run: ... return
DryRun(args) == args.dry_run

\* setup_worktree_and_launcher: settings = LetsSettings.load(); for the
\* tmux launcher the session and the attach flag of the command line are
\* written into this settings object.
SetupSettings(saved, launcher, session, attach) ==
    IF launcher = "tmux"
    THEN [saved EXCEPT !.launchers.tmux.session = session,
                       !.launchers.tmux.auto_attach = attach]
    ELSE saved

\* handle_launcher_attachment / print_workspace_summary: settings =
\* LetsSettings.load() again, and only the session is written into it.
AttachmentSettings(saved, session) ==
    [saved EXCEPT !.launchers.tmux.session = session]

(***************************************************************************)
(* Specification of a run of main: the command line is read and the        *)
(* launcher selected and validated, the worktree is created, the launcher  *)
(* sets the workspace up, the summary is printed and the attachment        *)
(* handled.  Before the launcher is set up a tool may disappear from the    *)
(* host.                                                                   *)
(***************************************************************************)
\* Saved configurations: the launcher and the auto-attach setting.
MainConfigs ==
    {[DefaultSettings EXCEPT !.launcher = l,
                             !.launchers.tmux.auto_attach = a] :
        l \in {"tmux", "terminal"}, a \in BOOLEAN}

\* Command lines: the task, --launcher, --attach/--no-attach, --dry-run,
\* --force, --base-branch, with --branch feature and the process environment.
MainArgs ==
    {a \in [task     : {<<>>, FixAuth},
            launcher : {"", "tmux", "terminal", "invalid"},
            attach   : BOOLEAN,
            dry_run  : BOOLEAN,
            force    : BOOLEAN,
            session  : {Work},
            branch   : {Feature},
            base     : {<<>>, <<"d", "e", "v", "e", "l", "o", "p">>},
            ai_tool  : {Claude},
            copy_env : {TRUE},
            environ  : {NoEnviron, [TMUX |-> TmuxSocket]}] :
        /\ a.task = <<>> => (a.launcher = "" /\ a.attach /\ ~a.dry_run)
        /\ a.dry_run => a.attach
        /\ a.force => (a.launcher = "" /\ a.attach)
        /\ a.launcher = "invalid" => a.attach
        /\ a.environ # NoEnviron => (a.launcher \in {"", "tmux"} /\ ~a.force)
        /\ a.base # <<>> =>
               /\ a.task # <<>> /\ a.launcher = "" /\ a.attach /\ ~a.force
               /\ a.environ = NoEnviron}

\* Repositories and worktree directories a run starts with: a fresh
\* repository, one that has the branch, ones whose worktree directory is
\* there (with the branch, and with the directory of the alternative name),
\* repositories with other base branches, and a directory that is not a
\* git repository.
MainRepoFamily ==
    LET master == <<"m", "a", "s", "t", "e", "r">>
        here   == WorktreePath(BaseDir, RepoName, Feature)
        alt    == WorktreePath(BaseDir, RepoName,
                      Feature \o <<"-">> \o StrftimeHMS(Clock(15, 30, 0)))
    IN {[refs |-> {Origin(MainBranch)}, dirs |-> {}],
        [refs |-> {Origin(MainBranch), Feature}, dirs |-> {}],
        [refs |-> {Origin(MainBranch)}, dirs |-> {here}],
        [refs |-> {Origin(MainBranch), Feature}, dirs |-> {here}],
        [refs |-> {Origin(MainBranch)}, dirs |-> {here, alt}],
        [refs |-> {Origin(MainBranch), <<"d", "e", "v", "e", "l", "o", "p">>},
         dirs |-> {}],
        [refs |-> {master}, dirs |-> {}],
        [refs |-> {Origin(master), MainBranch}, dirs |-> {}],
        [refs |-> {Feature}, dirs |-> {}],
        [refs |-> {}, dirs |-> {}]}

\* Hosts a run starts on.
MainHosts ==
    {[os |-> "posix", bins |-> {}],
     [os |-> "posix", bins |-> {"tmux"}],
     [os |-> "posix", bins |-> {"tmux", "open"}],
     [os |-> "posix", bins |-> {"xterm"}],
     [os |-> "nt", bins |-> {"cmd"}],
     [os |-> "nt", bins |-> {"cmd", "wt", "tmux"}]}

\* Outcomes of the launcher's subprocesses in a run.
MainFailSets == {{}, {"split-window"}, {"select-pane"}, {"terminal"}}

\* Exit codes of git fetch, git worktree add and git push, and the env
\* files of the directory the run starts in.
GitOutcomes ==
    {[fetch |-> 0, add |-> 0, push |-> 0, present |-> {".env"}],
     [fetch |-> 1, add |-> 0, push |-> 1, present |-> {}],
     [fetch |-> 0, add |-> 128, push |-> 0, present |-> {".env"}]}

EnvFiles == <<".env", ".env.local", ".env.development">>

InitMain ==
    /\ \E repo \in MainRepoFamily : refs = repo.refs /\ dirs = repo.dirs
    /\ gitOk = (refs # {})
    /\ \E host \in MainHosts : osName = host.os /\ bins = host.bins
    /\ last = NoCall
    /\ tmux \in {NoSessions,
                 {Window(Work, MainWindow,
                         WorktreePath(BaseDir, RepoName, MainWindow))}}
    /\ config \in MainConfigs
    /\ run = NoRun

\* The record of a run: where it is, its exit code, what it selected and
\* resolved, and what it has shown, asked (with the user's answers) and
\* started so far.
Running(pc, code, args, selected, available, resolved, logs) ==
    [pc |-> pc, code |-> code, args |-> args, selected |-> selected,
     available |-> available, host |-> [os |-> osName, bins |-> bins],
     branch_name |-> resolved.name, is_existing |-> resolved.is_existing,
     worktree_path |-> WorktreePath(BaseDir, RepoName, resolved.name),
     resolved |-> resolved.name, base |-> <<>>,
     git |-> [fetch |-> 0, add |-> 0, push |-> 0, present |-> {}],
     created |-> "none", setup |-> "none", used |-> <<>>,
     prompts |-> logs.prompts, answers |-> logs.answers,
     cmds |-> logs.cmds, echo |-> logs.echo]

\* main, from the command line to the validation of the launcher (and the
\* report of a dry run).
MainSelect ==
    /\ run.pc = "none"
    /\ \E args \in MainArgs, answer \in BOOLEAN :
       \E git \in {GetGitInfo(gitOk)} :
       \E repo \in {SetupRepositoryInfo(args.task, args.branch, <<>>, answer,
                                        Clock(15, 30, 0), refs, gitOk)} :
       \E selected \in {SelectLauncher(args.launcher, config, osName, bins)} :
       \E available \in {GetAvailableLaunchers(config, osName, bins).value} :
           LET none  == [name |-> <<>>, is_existing |-> FALSE]
               quiet == [prompts |-> <<>>, answers |-> <<>>, cmds |-> <<>>,
                         echo |-> <<>>]
               asked == [prompts |-> repo.prompts,
                         answers |-> [i \in 1 .. Len(repo.prompts) |-> answer],
                         cmds |-> <<>>, echo |-> <<>>]
               dry   == IF args.dry_run THEN <<"DRY RUN MODE">> ELSE <<>>
           IN /\ run' =
                   IF args.task = <<>>
                   THEN Running("exit", 1, args, "", <<>>, none,
                                [quiet EXCEPT !.echo =
                                    <<"TASK argument is required">>])
                   ELSE IF git.exit
                   THEN Running("exit", 1, args, "", <<>>, none,
                                [quiet EXCEPT !.echo = dry \o git.echo])
                   ELSE IF ~LauncherValid(selected, available)
                   THEN Running("exit", 1, args, selected, available, repo,
                                [asked EXCEPT !.echo =
                                    dry \o <<"Launcher is not available">>])
                   ELSE IF DryRun(args)
                   THEN [Running("done", 0, args, selected, available, repo,
                                 [asked EXCEPT !.echo =
                                     <<"DRY RUN MODE", "Using launcher",
                                       "Would create worktree at",
                                       "Would use base branch",
                                       "Would use launcher", "Would run">>])
                           EXCEPT !.base = GetBaseBranch(args.base, refs,
                                                         gitOk)]
                   ELSE Running("worktree", 0, args, selected, available, repo,
                                [asked EXCEPT !.echo = <<"Using launcher">>])
              /\ UNCHANGED <<refs, gitOk, dirs, osName, bins, last, tmux,
                             config>>

\* setup_worktree_and_launcher, the directory conflict: when the worktree
\* path exists, handle_existing_worktree removes the directory or renames
\* the branch.
MainExisting ==
    /\ run.pc = "worktree"
    /\ \E answer \in BOOLEAN :
       \E path0 \in {WorktreePath(BaseDir, RepoName, run.branch_name)} :
       \E h \in {IF path0 \in dirs
                 THEN HandleExistingWorktree(path0, run.args.force,
                          run.branch_name, BaseDir, RepoName, answer,
                          Clock(15, 30, 0), dirs)
                 ELSE [path |-> path0, name |-> run.branch_name,
                       dirs |-> dirs, prompts |-> <<>>]} :
           /\ dirs' = h.dirs
           /\ run' = [run EXCEPT
                        !.pc = "create",
                        !.branch_name = h.name,
                        !.worktree_path = h.path,
                        !.prompts = @ \o h.prompts,
                        !.answers =
                            @ \o [i \in 1 .. Len(h.prompts) |-> answer]]
           /\ UNCHANGED <<refs, gitOk, osName, bins, last, tmux, config>>

\* setup_worktree_and_launcher, up to the copy of the env files: the base
\* branch is found, the worktree created (sys.exit(1) when that fails) and
\* the env files copied.
MainWorktree ==
    /\ run.pc = "create"
    /\ \E git \in GitOutcomes :
       \E base \in {GetBaseBranch(run.args.base, refs, gitOk)} :
       \E cw \in {CreateWorktree(run.worktree_path, run.branch_name, base,
                                 run.is_existing, git)} :
       \E copied \in {IF cw.value /\ run.args.copy_env
                      THEN CopyEnvFiles(git.present, EnvFiles) ELSE <<>>} :
           /\ dirs' = IF cw.value THEN dirs \cup {run.worktree_path}
                      ELSE dirs
           /\ refs' = IF cw.value /\ ~run.is_existing
                      THEN refs \cup {run.branch_name}
                           \cup (IF git.push = 0
                                 THEN {Origin(run.branch_name)} ELSE {})
                      ELSE refs
           /\ run' = [run EXCEPT
                        !.pc = IF cw.value THEN "launcher" ELSE "exit",
                        !.code = IF cw.value THEN 0 ELSE 1,
                        !.git = git,
                        !.base = base,
                        !.created = IF cw.value THEN "true" ELSE "false",
                        !.cmds = @ \o cw.cmds,
                        !.echo = @ \o cw.echo
                                   \o [i \in 1 .. Len(copied) |-> "Copied"]]
           /\ UNCHANGED <<gitOk, osName, bins, last, tmux, config>>

\* setup_worktree_and_launcher, the launcher part: the settings are loaded,
\* the launcher built and its setup_workspace called; a false result is
\* answered with a warning, an exception ends the run.
MainLauncher ==
    /\ run.pc = "launcher"
    /\ \E fail \in MainFailSets :
       \E settings \in {SetupSettings(config, run.selected, run.args.session,
                                      run.args.attach)} :
       \E launcher \in {GetLauncher(run.selected, settings)} :
       \E r \in {SetupWorkspace(launcher, run.worktree_path, run.branch_name,
                                run.args.task,
                                EffectiveAiTool(run.args.ai_tool, config),
                                osName, bins, run.args.environ, tmux,
                                [fail |-> fail, pbi |-> PaneBaseOne])} :
           /\ tmux' = r.tmux
           /\ run' = [run EXCEPT
                        !.pc = IF r.raised THEN "crash" ELSE "summary",
                        !.code = IF r.raised THEN 1 ELSE 0,
                        !.setup = IF r.raised THEN "raised"
                                  ELSE IF r.value THEN "true" ELSE "false",
                        !.used = @ \o <<run.selected>>,
                        !.cmds = @ \o r.cmds,
                        !.echo = @ \o r.echo
                                   \o (IF ~r.raised /\ ~r.value
                                       THEN <<"setup failed, but worktree was created successfully">>
                                       ELSE <<>>)]
           /\ UNCHANGED <<refs, gitOk, dirs, osName, bins, last, config>>

\* main, after the setup: print_workspace_summary, then
\* handle_launcher_attachment.
MainAttach ==
    /\ run.pc = "summary"
    /\ \E answer \in BOOLEAN, exit \in {0, 1} :
       \E settings \in {AttachmentSettings(config, run.args.session)} :
       \E launcher \in {GetLauncher(run.selected, settings)} :
       \E a \in {HandleAttachment(launcher, run.branch_name, run.args.environ,
                                  answer, bins, exit)} :
           /\ run' = [run EXCEPT
                        !.pc = "done",
                        !.used = @ \o <<run.selected, run.selected>>,
                        !.prompts = @ \o a.prompts,
                        !.answers =
                            @ \o [i \in 1 .. Len(a.prompts) |-> answer],
                        !.cmds = @ \o a.cmds,
                        !.echo = @ \o <<"Workspace ready!">> \o a.echo]
           /\ UNCHANGED <<refs, gitOk, dirs, osName, bins, last, tmux, config>>

\* A tool is removed from the host after the worktree was created and
\* before the launcher is set up.
ToolRemoved ==
    \E b \in bins \ Builtin(osName) :
        /\ run.pc = "launcher"
        /\ bins' = bins \ {b}
        /\ UNCHANGED <<refs, gitOk, dirs, osName, last, tmux, config, run>>

NextMain ==
    \/ MainSelect
    \/ MainExisting
    \/ MainWorktree
    \/ MainLauncher
    \/ MainAttach
    \/ ToolRemoved

SpecMain == InitMain /\ [][NextMain]_vars

(***************************************************************************)
(* Properties of the resolver, stated against the repository itself.       *)
(***************************************************************************)
\* The branch exists locally or as origin/<name>.
ExistsAnywhere(name) ==
    gitOk /\ (name \in refs
              \/ <<"o", "r", "i", "g", "i", "n", "/">> \o name \in refs)

IsResolve == last.op = "handle_branch_conflict"

Declined == IsResolve /\ ExistsAnywhere(last.arg) /\ ~last.answer

\* The clock readings of the model, as the six digits HHMMSS.
ExpectedHMS(t) ==
    IF t.h = 15 THEN <<"1", "5", "3", "0", "0", "0">>
    ELSE <<"0", "0", "0", "0", "0", "1">>

\* The suffixes in the documented order: HHMMSS, 1 .. 99, YYYYMMDD-HHMMSS.
ExpectedSuffix(j, t1, t2) ==
    IF j = 1 THEN ExpectedHMS(t1)
    ELSE IF j <= 10 THEN <<DigitChars[j]>>
    ELSE IF j <= 100
    THEN <<DigitChars[((j - 1) \div 10) + 1], DigitChars[((j - 1) % 10) + 1]>>
    ELSE <<"2", "0", "2", "4", "0", "1", "0", "1", "-">> \o ExpectedHMS(t2)

ExpectedOrder(base, t1, t2) ==
    [j \in 1 .. 101 |-> base \o <<"-">> \o ExpectedSuffix(j, t1, t2)]

\* C1: a desired name that exists neither locally nor as origin/<name> is
\* returned unchanged with isExisting = false and without any prompt.
C1_NoConflict ==
    (IsResolve /\ ~ExistsAnywhere(last.arg)) =>
        /\ last.ret.name = last.arg
        /\ last.ret.is_existing = FALSE
        /\ last.ret.prompts = <<>>
        /\ ~last.ret.raised

C1_Witness ==
    /\ IsResolve /\ last.arg = FixBug /\ last.answer
    /\ ~ExistsAnywhere(FixBug) /\ refs # {} /\ gitOk
    /\ last.ret.name = FixBug

\* C2: after a declined reuse the candidates are probed in the order
\* <name>-<HHMMSS>, <name>-1 .. <name>-99, and the result is the first
\* candidate of <name>-<HHMMSS>, <name>-1 .. <name>-99,
\* <name>-<YYYYMMDD-HHMMSS> that does not exist.
C2_CandidateOrder ==
    Declined =>
        LET order == ExpectedOrder(last.arg, last.t1, last.t2)
            free  == {j \in 1 .. 101 : ~ExistsAnywhere(order[j])}
            tried == last.ret.probes
        IN /\ Len(tried) >= 2
           /\ \A j \in 2 .. Len(tried) : tried[j].name = order[j - 1]
           /\ free # {} =>
                  \E j \in free : /\ \A k \in free : j <= k
                                  /\ last.ret.name = order[j]
                                  /\ last.ret.is_existing = FALSE

C2_Witness ==
    /\ Declined /\ last.arg = Feature /\ last.t1 = Clock(15, 30, 0)
    /\ ExistsAnywhere(Feature \o <<"-", "1", "5", "3", "0", "0", "0">>)
    /\ ~ExistsAnywhere(Feature \o <<"-", "1">>)
    /\ last.ret.name = Feature \o <<"-", "1">>
    /\ last.ret.is_existing = FALSE

\* C3: when the desired name exists and the user declines reuse, the
\* returned name differs from the desired name and isExisting = false.
C3_DeclinedGivesNewName ==
    Declined => /\ last.ret.name # last.arg
                /\ last.ret.is_existing = FALSE

C3_Witness ==
    /\ Declined /\ Len(last.ret.probes) = 101
    /\ last.ret.name # last.arg /\ ~last.ret.is_existing

\* C4: isExisting is true exactly when the desired name exists and the user
\* accepted reuse; then the name is returned unchanged and nothing but the
\* desired name was probed.
C4_UseExisting ==
    IsResolve =>
        /\ last.ret.is_existing = TRUE <=> (ExistsAnywhere(last.arg) /\ last.answer)
        /\ last.ret.is_existing = TRUE =>
               /\ last.ret.name = last.arg
               /\ last.ret.probes = <<[name |-> last.arg, found |-> TRUE]>>

C4_Witness ==
    /\ IsResolve /\ last.ret.is_existing = TRUE
    /\ last.ret.name = Feature /\ Origin(Feature) \in refs /\ Feature \notin refs

\* The returned name was handed to the existence probe and found free.
ProbedFree(r) ==
    /\ \E j \in 1 .. Len(r.probes) :
           r.probes[j].name = r.name /\ ~r.probes[j].found
    /\ ~ExistsAnywhere(r.name)

\* C5 as claimed: every name returned with isExisting = false, the final
\* long-timestamp candidate included, was probed and found not to exist.
C5_EveryCandidateProbed ==
    (IsResolve /\ last.ret.is_existing = FALSE) => ProbedFree(last.ret)

\* C5 as amended: a name returned with isExisting = false was probed and
\* found not to exist, except the final long-timestamp candidate, which is
\* returned unprobed once the desired name, the timestamp candidate and all
\* of <name>-1 .. <name>-99 were found to exist.
C5_CandidatesProbedButFinal ==
    (IsResolve /\ last.ret.is_existing = FALSE) =>
        \/ ProbedFree(last.ret)
        \/ /\ last.ret.name = ExpectedOrder(last.arg, last.t1, last.t2)[101]
           /\ Len(last.ret.probes) = 101
           /\ \A j \in 1 .. 101 : /\ last.ret.probes[j].found
                                  /\ last.ret.probes[j].name # last.ret.name

C5_Witness ==
    /\ IsResolve /\ ~last.ret.is_existing /\ Len(last.ret.probes) = 101
    /\ last.ret.name = ExpectedOrder(last.arg, last.t1, last.t2)[101]
    /\ ExistsAnywhere(last.ret.name)

\* C6: branch_exists is true exactly when the local check or the remote
\* check succeeds, runs the remote check only after the local one failed,
\* and never raises.
C6_BranchExists ==
    last.op = "branch_exists" =>
        /\ last.ret.value \in BOOLEAN
        /\ last.ret.value <=> ExistsAnywhere(last.arg)
        /\ ~last.ret.raised
        /\ last.ret.cmds[1] = last.arg
        /\ Len(last.ret.cmds) = (IF gitOk /\ last.arg \in refs THEN 1 ELSE 2)
        /\ Len(last.ret.cmds) = 2 =>
               last.ret.cmds[2] = <<"o", "r", "i", "g", "i", "n", "/">> \o last.arg

C6_Witness ==
    /\ last.op = "branch_exists" /\ last.ret.value = TRUE
    /\ last.arg \notin refs /\ Len(last.ret.cmds) = 2

C6_WitnessNotFound ==
    /\ last.op = "branch_exists" /\ last.ret.value = FALSE
    /\ ~last.ret.raised /\ ~gitOk /\ last.arg \in refs

\* C7: the resolver always returns a (name, flag) pair without raising,
\* after at most one prompt and at most 1 + 1 + 99 existence probes; the
\* worst case is the final timestamp fallback.
C7_NeverRaisesBounded ==
    IsResolve =>
        /\ ~last.ret.raised
        /\ last.ret.is_existing \in BOOLEAN
        /\ Len(last.ret.name) > 0
        /\ Len(last.ret.prompts) <= 1
        /\ Len(last.ret.probes) <= 101
        /\ (\A j \in 1 .. Len(last.ret.probes) : last.ret.probes[j].found) =>
               \/ last.ret.is_existing = TRUE
               \/ /\ Len(last.ret.probes) = 101
                  /\ last.ret.name =
                         ExpectedOrder(last.arg, last.t1, last.t2)[101]

C7_Witness ==
    /\ IsResolve /\ ~last.ret.raised
    /\ Len(last.ret.prompts) = 1 /\ Len(last.ret.probes) = 101
    /\ last.ret.name = ExpectedOrder(last.arg, last.t1, last.t2)[101]

(***************************************************************************)
(* Properties of the launcher registry.                                    *)
(***************************************************************************)
IsBest == last.op = "get_best_available_launcher"

IsListing == last.op = "get_available_launchers"

\* The launcher reported available on the host the call ran on.
Up(name) == IsAvailable(name, last.os, last.bins)

\* C9: get_best_available_launcher never raises; it returns the preferred
\* id when that id is registered and available, else the first available of
\* tmux, terminal, else "terminal".
C9_SelectBest ==
    IsBest =>
        /\ ~last.ret.raised
        /\ last.ret.value \in {"tmux", "terminal"}
        /\ last.ret.value =
               (IF last.arg \in {"tmux", "terminal"} /\ Up(last.arg)
                THEN last.arg
                ELSE IF Up("tmux") THEN "tmux"
                ELSE IF Up("terminal") THEN "terminal"
                ELSE "terminal")

C9_Witness ==
    /\ IsBest /\ last.arg = "terminal" /\ Up("tmux") /\ Up("terminal")
    /\ last.ret.value = "terminal" /\ ~last.ret.raised

C9_WitnessUnregistered ==
    /\ IsBest /\ last.arg = "invalid" /\ ~Up("tmux") /\ Up("terminal")
    /\ last.ret.value = "terminal" /\ ~last.ret.raised

C10_WitnessEmpty ==
    /\ IsListing /\ last.bins = {} /\ last.ret.value = <<>>

(***************************************************************************)
(* Properties of the branch names a run resolves.                          *)
(***************************************************************************)
IsNamed == last.op \in {"setup_repository_info", "handle_existing_worktree"}

MatchesBranchPattern(name) ==
    \A i \in 1 .. Len(name) :
        name[i] \in LowerSet \cup DigitSet \cup {"-"}

\* name is base, or base followed by '-' and up to n digits and hyphens.
Extends(name, base, n) ==
    \/ name = base
    \/ /\ Len(name) > Len(base) + 1
       /\ Len(name) <= Len(base) + 1 + n
       /\ SubSeq(name, 1, Len(base)) = base
       /\ name[Len(base) + 1] = "-"
       /\ \A i \in Len(base) + 2 .. Len(name) :
              name[i] \in DigitSet \cup {"-"}

C8_WitnessOption ==
    /\ last.op = "setup_repository_info" /\ last.ret.name = SlashName

(***************************************************************************)
(* Properties of the launchers.                                            *)
(***************************************************************************)
IsGetLauncher == last.op = "get_launcher"

IsSetup == last.op = "setup_workspace"

IsAttach == last.op = "handle_attachment"

\* The binaries a launcher needs are on the host.
HostHas(name) ==
    IF name = "tmux" THEN "tmux" \in bins
    ELSE \/ osName = "posix" /\ bins \cap {"open", "gnome-terminal", "xterm"} # {}
         \/ osName = "nt"

\* Unknown launcher: invalid. Available: ['tmux', 'terminal']
UnknownInvalid ==
    <<"U", "n", "k", "n", "o", "w", "n", " ", "l", "a", "u", "n", "c", "h",
      "e", "r", ":", " ", "i", "n", "v", "a", "l", "i", "d", ".", " ", "A",
      "v", "a", "i", "l", "a", "b", "l", "e", ":", " ", "[", "'", "t", "m",
      "u", "x", "'", ",", " ", "'", "t", "e", "r", "m", "i", "n", "a", "l",
      "'", "]">>

\* C11: get_launcher raises the unknown-launcher error, whose message lists
\* the valid identifiers, for an identifier that is not tmux or terminal,
\* and otherwise returns a launcher of the class registered for the
\* identifier, holding the settings it was given.
C11_GetLauncher ==
    IsGetLauncher =>
        IF last.arg \in {"tmux", "terminal"}
        THEN /\ ~last.ret.raised
             /\ last.ret.class = (IF last.arg = "tmux" THEN "TmuxLauncher"
                                  ELSE "TerminalLauncher")
             /\ last.ret.settings = last.settings
        ELSE /\ last.ret.raised
             /\ last.arg = "invalid" => last.ret.message = UnknownInvalid

C11_Witness ==
    /\ IsGetLauncher /\ last.arg = "invalid" /\ last.ret.raised
    /\ last.ret.message = UnknownInvalid

C11_WitnessBound ==
    /\ IsGetLauncher /\ last.arg = "terminal"
    /\ last.ret.class = "TerminalLauncher"
    /\ last.ret.settings.launchers.tmux.session = Work

\* C12: for both launchers, setup_workspace on a host where the launcher is
\* not available returns false, does not raise, starts no subprocess and
\* leaves the tmux server as it was.
C12_UnavailableReturnsFalse ==
    (IsSetup /\ ~HostHas(last.launcher)) =>
        /\ ~last.ret.raised
        /\ last.ret.value = FALSE
        /\ last.ret.cmds = <<>>
        /\ tmux = last.before

C12_Witness ==
    /\ IsSetup /\ last.launcher = "tmux" /\ "tmux" \notin bins
    /\ last.in.out.fail = {} /\ ~last.ret.value /\ last.ret.cmds = <<>>

C12_WitnessTerminal ==
    /\ IsSetup /\ last.launcher = "terminal" /\ osName = "java"
    /\ "tmux" \in bins /\ ~last.ret.value /\ last.ret.cmds = <<>>

\* The steps of the tmux setup.
RequiredSteps ==
    {"create", "split-window", "send-keys-editor", "send-keys-ai"}

TmuxSteps == RequiredSteps \cup {"select-pane"}

IsTmuxSetup == IsSetup /\ last.launcher = "tmux" /\ HostHas("tmux")

\* C13: when a required subprocess of the tmux setup (session or window
\* creation, split-window, a send-keys step) exits non-zero,
\* setup_workspace returns false and does not raise.
C13_RequiredFailureReturnsFalse ==
    (IsTmuxSetup /\ last.in.out.fail \cap RequiredSteps # {}) =>
        /\ ~last.ret.raised
        /\ last.ret.value = FALSE

\* C14: when only the final select-pane step of the tmux setup exits
\* non-zero, setup_workspace still returns true and does not raise.
C14_SelectPaneTolerated ==
    (IsTmuxSetup /\ last.in.out.fail \cap TmuxSteps = {"select-pane"}) =>
        /\ ~last.ret.raised
        /\ last.ret.value = TRUE

\* The subcommands of the tmux command lines a setup started, without the
\* pane-base-index query.
IsStep(cmd) == cmd.sub # "show-option"

StepsOf(r) == SelectSeq(r.cmds, IsStep)

\* The editor a tmux setup starts: the configured one, else $EDITOR, else
\* vim.
ExpectedEditor ==
    IF last.in.settings.editor_command # <<>>
    THEN last.in.settings.editor_command
    ELSE IF "EDITOR" \in DOMAIN last.in.environ THEN last.in.environ.EDITOR
    ELSE <<"v", "i", "m">>

StartsWith(s, prefix) ==
    Len(s) >= Len(prefix) /\ SubSeq(s, 1, Len(prefix)) = prefix

\* C15: a tmux setup that returns true has run has-session, then
\* new-session when the session was absent and new-window in the session
\* when it was present (never both), naming the window after the branch and
\* rooting it at the worktree path, then split-window, then send-keys for
\* the editor, then send-keys for the AI tool, then select-pane, in that
\* order.
C15_SetupStateMachine ==
    (IsSetup /\ last.launcher = "tmux"
     /\ ~last.ret.raised /\ last.ret.value) =>
        LET c       == StepsOf(last.ret)
            session == last.in.settings.launchers.tmux.session
            present == \E w \in last.before : w.session = session
        IN /\ Len(c) = 6
           /\ [i \in 1 .. 6 |-> c[i].sub] =
                  <<"has-session",
                    IF present THEN "new-window" ELSE "new-session",
                    "split-window", "send-keys", "send-keys", "select-pane">>
           /\ c[1].t = session
           /\ IF present THEN c[2].t = session \o <<":">>
              ELSE c[2].s = session
           /\ c[2].n = last.in.branch
           /\ c[2].c = <<"worktrees", "repo", last.in.branch>>
           /\ c[4].keys = ExpectedEditor
           /\ StartsWith(c[5].keys, last.in.ai_tool)
           /\ Cardinality({i \in 1 .. Len(last.ret.cmds) :
                  last.ret.cmds[i].sub \in {"new-session", "new-window"}}) = 1
           /\ \E w \in tmux :
                  /\ w.session = session
                  /\ w.window = last.in.branch
                  /\ w.cwd = <<"worktrees", "repo", last.in.branch>>

C15_Witness ==
    /\ IsSetup /\ last.launcher = "tmux" /\ last.ret.value
    /\ last.before # {} /\ last.ret.cmds[2].sub = "new-window"
    /\ last.in.settings.launchers.tmux.session = Work

C15_WitnessNewSession ==
    /\ IsSetup /\ last.launcher = "tmux" /\ last.ret.value
    /\ last.before # {} /\ last.ret.cmds[2].sub = "new-session"
    /\ Cardinality(tmux) = 2

\* claude --dangerously-skip-permissions 'Fix '\''auth'\'' issue'
FixAuthInvocation ==
    <<"c", "l", "a", "u", "d", "e", " ", "-", "-", "d", "a", "n", "g", "e",
      "r", "o", "u", "s", "l", "y", "-", "s", "k", "i", "p", "-", "p", "e",
      "r", "m", "i", "s", "s", "i", "o", "n", "s", " ", "'", "F", "i", "x",
      " ", "'", "\\", "'", "'", "a", "u", "t", "h", "'", "\\", "'", "'",
      " ", "i", "s", "s", "u", "e", "'">>

\* The task with every single quote replaced by '\''.
Quoted(task) ==
    LET q[i \in 0 .. Len(task)] ==
            IF i = 0 THEN <<>>
            ELSE q[i - 1] \o (IF task[i] = "'" THEN <<"'", "\\", "'", "'">>
                              ELSE <<task[i]>>)
    IN q[Len(task)]

\* <aiTool> --dangerously-skip-permissions '<quoted task>'
ExpectedInvocation(ai_tool, task) ==
    ai_tool
    \o <<" ", "-", "-", "d", "a", "n", "g", "e", "r", "o", "u", "s", "l", "y",
         "-", "s", "k", "i", "p", "-", "p", "e", "r", "m", "i", "s", "s", "i",
         "o", "n", "s", " ", "'">>
    \o Quoted(task) \o <<"'">>

\* The AI invocation a setup handed to its window: the keys of the second
\* send-keys of tmux, the command of the terminal window.
TmuxSent == last.ret.cmds[6].keys

TerminalSent == last.ret.cmds[1].command

\* C16: the AI invocation either launcher builds is
\* <aiTool> --dangerously-skip-permissions '<task>' with every single quote
\* of the task replaced by '\'' (the task Fix 'auth' issue gives the
\* argument 'Fix '\''auth'\'' issue'), so the tmux launcher and the
\* terminal launcher build the same text from the same inputs.
C16_AiInvocation ==
    /\ (IsSetup /\ last.launcher = "tmux" /\ Len(last.ret.cmds) >= 6) =>
           /\ TmuxSent = ExpectedInvocation(last.in.ai_tool, last.in.task)
           /\ (last.in.task = FixAuth /\ last.in.ai_tool = Claude) =>
                  TmuxSent = FixAuthInvocation
    /\ (IsSetup /\ last.launcher = "terminal" /\ last.ret.cmds # <<>>) =>
           /\ StartsWith(TerminalSent,
                         ExpectedInvocation(last.in.ai_tool, last.in.task))
           /\ last.ret.cmds[1].prog \in {"osascript", "wt"} =>
                  TerminalSent =
                      ExpectedInvocation(last.in.ai_tool, last.in.task)
           /\ (last.in.task = FixAuth /\ last.in.ai_tool = Claude) =>
                  StartsWith(TerminalSent, FixAuthInvocation)

C16_Witness ==
    /\ IsSetup /\ last.launcher = "tmux" /\ last.ret.value
    /\ last.in.task = FixAuth /\ TmuxSent = FixAuthInvocation

C16_WitnessTerminal ==
    /\ IsSetup /\ last.launcher = "terminal" /\ last.ret.value
    /\ last.in.task = <<"'", "\\", "'">>
    /\ last.ret.cmds[1].prog = "osascript"
    /\ Len(TerminalSent) = Len(Aider) + 33 + 9 + 1

\* C17: with auto-attach disabled the tmux launcher's handle_attachment
\* does nothing: no prompt, no switch-client or attach subprocess, no
\* message, whether or not TMUX is set.
C17_AttachmentDisabled ==
    (IsAttach /\ last.launcher = "tmux"
     /\ ~last.settings.launchers.tmux.auto_attach) =>
        /\ last.ret.prompts = <<>>
        /\ last.ret.cmds = <<>>
        /\ last.ret.echo = <<>>
        /\ ~last.ret.raised

C17_Witness ==
    /\ IsAttach /\ last.launcher = "tmux"
    /\ ~last.settings.launchers.tmux.auto_attach
    /\ "TMUX" \in DOMAIN last.environ /\ last.environ.TMUX # <<>>
    /\ last.answer /\ "tmux" \in bins /\ last.ret.prompts = <<>>

C17_WitnessOutside ==
    /\ IsAttach /\ last.launcher = "tmux"
    /\ ~last.settings.launchers.tmux.auto_attach
    /\ "TMUX" \notin DOMAIN last.environ
    /\ last.answer /\ "tmux" \in bins /\ last.ret.cmds = <<>>

(***************************************************************************)
(* Properties of a run of main.                                            *)
(***************************************************************************)
Started == run.pc # "none"

\* The launcher's binaries were on the host when the run validated it.
HostHad(name) ==
    CASE name = "tmux" -> "tmux" \in run.host.bins
      [] name = "terminal" ->
             \/ /\ run.host.os = "posix"
                /\ run.host.bins \cap {"open", "gnome-terminal", "xterm"} # {}
             \/ run.host.os = "nt"
      [] OTHER -> FALSE

\* The run has started an attach or switch-client of tmux.
AttachStarted ==
    \E i \in 1 .. Len(run.cmds) :
        /\ run.cmds[i].prog = "tmux"
        /\ run.cmds[i].sub \in {"attach", "switch-client"}

\* The run has asked whether to attach or to switch.
AttachAsked ==
    \E i \in 1 .. Len(run.prompts) :
        run.prompts[i] \in {"Attach to tmux session now?",
                            "Switch to workspace window?"}

\* C18: a run with --no-attach and the tmux launcher performs no
\* attachment, whatever auto_attach the saved configuration holds: it
\* issues neither attachment prompt and starts neither tmux attach nor
\* tmux switch-client.
C18_NoAttachFlag ==
    (Started /\ run.selected = "tmux" /\ ~run.args.attach) =>
        /\ ~AttachAsked
        /\ ~AttachStarted

C19_WitnessDone ==
    /\ run.pc = "done" /\ ~run.args.dry_run
    /\ run.used = <<"terminal", "terminal", "terminal">>
    /\ run.args.launcher = "terminal" /\ config.launcher = "tmux"

\* C20: when the worktree was created and the launcher's setup fails, the
\* run does not abort: the failure is answered with a warning, the worktree
\* stays, and the run goes on to the summary and the attachment without
\* exit code 1.
C20_SetupFailureContinues ==
    (Started /\ run.setup \in {"false", "raised"}) =>
        /\ run.pc \in {"summary", "done"}
        /\ run.code # 1
        /\ \E i \in 1 .. Len(run.echo) :
               run.echo[i] =
                   "setup failed, but worktree was created successfully"
        /\ run.worktree_path \in dirs

\* The run has called create_worktree.
Created == Started /\ run.created # "none"

\* The git commands the run has started with the given subcommand.
GitCmds(sub) ==
    {i \in 1 .. Len(run.cmds) :
        run.cmds[i].prog = "git" /\ run.cmds[i].sub = sub}

\* C21: when git worktree add fails, create_worktree returns false and the
\* run exits with code 1: no env file is copied, no launcher is built and
\* no setup_workspace is called, and no command follows the worktree add.
C21_WorktreeAddFailureExits ==
    (Created /\ run.git.add # 0) =>
        /\ run.created = "false"
        /\ run.pc = "exit" /\ run.code = 1
        /\ \A i \in 1 .. Len(run.echo) : run.echo[i] # "Copied"
        /\ run.setup = "none" /\ run.used = <<>>
        /\ GitCmds("worktree add") = {Len(run.cmds)}
        /\ tmux = NoSessions \/ run.worktree_path \notin
               {w.cwd : w \in tmux}

C21_Witness ==
    /\ Created /\ run.git.add = 128 /\ run.pc = "exit"
    /\ ".env" \in run.git.present /\ run.args.copy_env
    /\ HostHad(run.selected)

\* C22: when the worktree of a new branch was created and git push
\* --set-upstream origin <branch> exits non-zero, create_worktree runs the
\* fallback git branch --set-upstream-to=origin/main <branch> after the
\* push and still returns true.
C22_PushFailureFallback ==
    (Created /\ ~run.is_existing /\ run.git.add = 0 /\ run.git.push # 0) =>
        /\ run.created = "true"
        /\ \E i \in GitCmds("push"), k \in GitCmds("branch") :
               /\ i < k
               /\ run.cmds[k].branch = run.branch_name
               /\ run.cmds[k].set_upstream_to = "origin/main"

\* C23: the worktree path handed to create_worktree is
\* <base>/<repo_name>/<branch_name> for the branch name the run goes on
\* with, and no directory of that path exists when create_worktree is
\* called: an existing one was removed by --force or by a confirmed
\* removal, or the alternative name was chosen after a declined removal.
C23_PathFreeAtCreate ==
    (Started /\ run.pc = "create") =>
        /\ run.worktree_path = <<BaseDir, RepoName, run.branch_name>>
        /\ run.worktree_path \notin dirs

\* The step of a run that handles the directory conflict.
ConflictStep == run.pc = "worktree" /\ run'.pc = "create"

\* <branch>-<HHMMSS> at the time of the conflict handling, 15:30:00.
AltName(branch_name) ==
    branch_name \o <<"-", "1", "5", "3", "0", "0", "0">>

\* C24: the conflict handling removes an existing worktree directory only
\* with --force or after the user confirmed the removal prompt, and then
\* goes on with path and branch name unchanged, with --force without any
\* prompt; when the user declines, no directory is deleted and the run goes
\* on with the name <branch>-<HHMMSS> and the path
\* <base>/<repo>/<branch>-<HHMMSS>; without a conflict nothing changes.
C24_RemovalOnlyWhenAllowed ==
    [][ConflictStep =>
          LET path0     == <<BaseDir, RepoName, run.branch_name>>
              asked     == Len(run'.prompts) = Len(run.prompts) + 1
              confirmed == asked /\ run'.answers[Len(run'.answers)]
              same      == /\ run'.branch_name = run.branch_name
                           /\ run'.worktree_path = path0
          IN /\ dirs' \subseteq dirs
             /\ dirs' # dirs =>
                    /\ dirs \ dirs' = {path0}
                    /\ run.args.force \/ confirmed
             /\ path0 \notin dirs =>
                    same /\ dirs' = dirs /\ run'.prompts = run.prompts
             /\ (path0 \in dirs /\ run.args.force) =>
                    same /\ path0 \notin dirs' /\ run'.prompts = run.prompts
             /\ (path0 \in dirs /\ ~run.args.force) =>
                    /\ asked
                    /\ run'.prompts[Len(run'.prompts)] =
                           "Remove existing directory and continue?"
                    /\ confirmed => same /\ path0 \notin dirs'
                    /\ ~confirmed =>
                           /\ dirs' = dirs
                           /\ run'.branch_name = AltName(run.branch_name)
                           /\ run'.worktree_path =
                                  <<BaseDir, RepoName,
                                    AltName(run.branch_name)>>]_vars

\* A declined removal: the directory is still there and the run goes on
\* with the alternative name.
C24_Witness ==
    /\ Started /\ run.pc = "create" /\ ~run.args.force
    /\ run.prompts # <<>> /\ ~run.answers[Len(run.answers)]
    /\ run.prompts[Len(run.prompts)] =
           "Remove existing directory and continue?"
    /\ <<BaseDir, RepoName, run.resolved>> \in dirs
    /\ run.branch_name = AltName(run.resolved)

\* A forced removal.
C24_WitnessForce ==
    /\ Started /\ run.pc = "create" /\ run.args.force
    /\ run.prompts = <<>> /\ dirs = {}
    /\ run.branch_name = run.resolved

C26_FallsBackToAvailable ==
    (/\ Started /\ run.selected # "" /\ run.args.launcher = ""
     /\ ~HostHad(config.launcher)
     /\ \E other \in {"tmux", "terminal"} : HostHad(other)) =>
        /\ HostHad(run.selected)
        /\ \A i \in 1 .. Len(run.echo) :
               run.echo[i] # "Launcher is not available"

\* The pane base index the answer of `tmux show-option -g pane-base-index`
\* stands for: 1 for the answers "p 1" and "pane-base-index 1" with exit
\* code 0, and 0 for a failed query, an empty answer, "p x" and "p 0".
ExpectedPaneBase(pbi) ==
    IF /\ pbi.exit = 0
       /\ pbi.stdout \in {<<"p", " ", "1">>, <<"pane-base-index", " ", "1">>}
    THEN 1 ELSE 0

\* C27: a tmux setup that returns true has queried the pane base index b
\* (0 when the query fails or its answer is no integer), has sent the
\* editor to pane b of the window, the AI tool command to pane b+1, and has
\* selected pane b+1 last, the pane that received the AI tool command.
C27_PaneBaseIndex ==
    (IsSetup /\ last.launcher = "tmux"
     /\ ~last.ret.raised /\ last.ret.value) =>
        LET c      == StepsOf(last.ret)
            b      == ExpectedPaneBase(last.in.out.pbi)
            digit  == <<"0", "1", "2">>
            window == last.in.settings.launchers.tmux.session
                          \o <<":">> \o last.in.branch
        IN /\ \E i \in 1 .. Len(last.ret.cmds) :
                  /\ last.ret.cmds[i].sub = "show-option"
                  /\ last.ret.cmds[i].option = "pane-base-index"
           /\ c[4].sub = "send-keys" /\ c[4].keys = ExpectedEditor
           /\ c[4].t = window \o <<".", digit[b + 1]>>
           /\ c[5].sub = "send-keys"
           /\ c[5].keys = ExpectedInvocation(last.in.ai_tool, last.in.task)
           /\ c[5].t = window \o <<".", digit[b + 2]>>
           /\ c[6].sub = "select-pane"
           /\ c[6].t = c[5].t

C27_Witness ==
    /\ IsSetup /\ last.launcher = "tmux" /\ last.ret.value
    /\ last.in.out.pbi = [exit |-> 0,
                          stdout |-> <<"pane-base-index", " ", "1">>]
    /\ StepsOf(last.ret)[6].t =
           <<"d", "e", "v", ":", "f", "e", "a", "t", "u", "r", "e", ".", "2">>

C27_WitnessDefault ==
    /\ IsSetup /\ last.launcher = "tmux" /\ last.ret.value
    /\ last.in.out.pbi.exit = 1
    /\ StepsOf(last.ret)[4].t =
           <<"d", "e", "v", ":", "f", "e", "a", "t", "u", "r", "e", ".", "0">>

\* C28: TerminalLauncher.setup_workspace never raises, on any platform
\* branch: with a terminal launcher available it returns false when
\* opening the terminal fails and true otherwise, the editor is started
\* only after the terminal command succeeded, and the editor's exit code
\* never changes the result.
C28_TerminalSetupNeverRaises ==
    (IsSetup /\ last.launcher = "terminal") =>
        LET c      == last.ret.cmds
            failed == "terminal" \in last.in.out.fail
            editor == {i \in 1 .. Len(c) : c[i].prog = "editor"}
        IN /\ ~last.ret.raised
           /\ HostHas("terminal") => (last.ret.value <=> ~failed)
           /\ \A i \in editor :
                  /\ i = 2 /\ c[1].prog # "editor"
                  /\ ~failed /\ last.ret.value

\* The base branch was computed in this run.
BaseKnown == Started /\ run.base # <<>>

\* C29: get_base_branch returns the custom base when one is given and it
\* verifies as a ref; otherwise the first of origin/main, origin/master,
\* main, master that verifies; otherwise HEAD.  A custom base that does not
\* verify is never returned.
C29_BaseBranchOrder ==
    BaseKnown =>
        LET custom == run.args.base
            master == <<"m", "a", "s", "t", "e", "r">>
        IN /\ (custom # <<>> /\ custom \in refs) => run.base = custom
           /\ (custom # <<>> /\ custom \notin refs) => run.base # custom
           /\ ~(custom # <<>> /\ custom \in refs) =>
                  run.base =
                      IF Origin(MainBranch) \in refs THEN Origin(MainBranch)
                      ELSE IF Origin(master) \in refs THEN Origin(master)
                      ELSE IF MainBranch \in refs THEN MainBranch
                      ELSE IF master \in refs THEN master
                      ELSE <<"H", "E", "A", "D">>

\* A custom base that verifies is used.
C29_Witness ==
    /\ BaseKnown
    /\ run.args.base = <<"d", "e", "v", "e", "l", "o", "p">>
    /\ run.base = run.args.base

\* A custom base that does not verify gives way to the first default.
C29_WitnessUnverified ==
    /\ BaseKnown
    /\ run.args.base = <<"d", "e", "v", "e", "l", "o", "p">>
    /\ run.base = Origin(MainBranch)

\* origin/master is preferred to main, and HEAD is the last resort.
C29_WitnessMaster ==
    /\ BaseKnown
    /\ MainBranch \in refs
    /\ run.base = Origin(<<"m", "a", "s", "t", "e", "r">>)

C29_WitnessHead ==
    /\ BaseKnown
    /\ run.base = <<"H", "E", "A", "D">>

\* C30: for an existing branch the user chose to reuse, git worktree add
\* checks out the name the resolver found, without -b; when the handling
\* of an existing directory renamed the branch to the alternative name, the
\* worktree is created as a new branch, with -b.
C30_ExistingBranchCheckout ==
    Started =>
        \A i \in GitCmds("worktree add") :
            LET c == run.cmds[i]
            IN /\ c.branch = run.branch_name
               /\ ~c.b => /\ run.is_existing
                          /\ c.branch = run.resolved
               /\ run.branch_name # run.resolved => c.b

====
